---- MODULE Spec2Model ----
(***************************************************************************)
(* A model of the join order optimizer of src/optimizer/                   *)
(* join_order_optimizer.cpp: extraction of the reorderable region, the     *)
(* query graph, the DPccp enumeration with its pair budget, the greedy     *)
(* fallback, the cross-product retry and the rewriting of the plan.        *)
(*                                                                         *)
(* Relation ids are 0-based as in the source; TLA+ sequences are 1-based,  *)
(* so relation i is relations[i + 1].  A pointer to an operator of the     *)
(* plan is the path (sequence of child positions) from the root.           *)
(***************************************************************************)
EXTENDS Integers, Sequences, FiniteSets, TLC

(***************************************************************************)
(* Bounds of the model and program constants                               *)
(***************************************************************************)
\* largest number of base relations of the generated join graphs
MaxRel == 3
\* estimated cardinalities of base relations are drawn from 1..MaxCard
MaxCard == 2
\* the pair budget of TryEmitPair
PairBudget == 10000
\* the number of TryEmitPair calls of one exact run that the history keeps
MaxHistory == 32
Null == [k |-> "null", t |-> 0, d |-> 0, c |-> "", ch |-> <<>>]

Min(S) == CHOOSE x \in S : \A y \in S : x <= y
Max2(a, b) == IF a >= b THEN a ELSE b

RECURSIVE SortedSeq(_)
SortedSeq(S) == IF S = {} THEN <<>> ELSE <<Min(S)>> \o SortedSeq(S \ {Min(S)})

(***************************************************************************)
(* Expressions.  k is the expression type: a bound column reference "col"  *)
(* (table index t, depth d), a constant "const" (value t), a bound         *)
(* execution-time reference "bref", a subquery "subq" (correlated iff      *)
(* d > 0), a comparison "cmp" (comparator c, operands ch[1], ch[2]), the   *)
(* operator NOT "not", and any other operator/function "op" (c names it).  *)
(***************************************************************************)
Col(t) == [k |-> "col", t |-> t, d |-> 0, c |-> "", ch |-> <<>>]
Outer(t) == [k |-> "col", t |-> t, d |-> 1, c |-> "", ch |-> <<>>]
Const(v) == [k |-> "const", t |-> v, d |-> 0, c |-> "", ch |-> <<>>]
BoundRef == [k |-> "bref", t |-> 0, d |-> 0, c |-> "", ch |-> <<>>]
Cmp(c, l, r) == [k |-> "cmp", t |-> 0, d |-> 0, c |-> c, ch |-> <<l, r>>]
NotE(e) == [k |-> "not", t |-> 0, d |-> 0, c |-> "", ch |-> <<e>>]
Op(c, es) == [k |-> "op", t |-> 0, d |-> 0, c |-> c, ch |-> es]

\* ExpressionClass::COMPARISON, the types COMPARE_EQUAL .. COMPARE_NOTLIKE
IsComparison(e) == e.k = "cmp"

\* ComparisonExpression::FlipComparisionExpression
FlipComparisionExpression(c) ==
    CASE c = "<" -> ">"
      [] c = ">" -> "<"
      [] c = "<=" -> ">="
      [] c = ">=" -> "<="
      [] OTHER -> c

\* ComparisonExpression::NegateComparisionExpression
NegateComparisionExpression(c) ==
    CASE c = "=" -> "<>"
      [] c = "<>" -> "="
      [] c = "<" -> ">="
      [] c = ">" -> "<="
      [] c = "<=" -> ">"
      [] c = ">=" -> "<"
      [] OTHER -> c

(***************************************************************************)
(* Logical operators.  type is the LogicalOperatorType, jt the join type   *)
(* of a JOIN, ti the table index of a GET / SUBQUERY / TABLE_FUNCTION,     *)
(* card its estimated cardinality, exprs the raw expressions, conds the    *)
(* join conditions and ch the children.                                    *)
(***************************************************************************)
Node(type, jt, ti, card, exprs, conds, ch) ==
    [type |-> type, jt |-> jt, ti |-> ti, card |-> card,
     exprs |-> exprs, conds |-> conds, ch |-> ch]

Get(ti, card) == Node("GET", "NA", ti, card, <<>>, <<>>, <<>>)
Filter(exprs, child) == Node("FILTER", "NA", 0, 0, exprs, <<>>, <<child>>)
Projection(child) == Node("PROJECTION", "NA", 0, 0, <<>>, <<>>, <<child>>)
Join(jt, exprs, l, r) == Node("JOIN", jt, 0, 0, exprs, <<>>, <<l, r>>)
CrossProduct(l, r) == Node("CROSS_PRODUCT", "NA", 0, 0, <<>>, <<>>, <<l, r>>)
Subquery(ti, card, child) == Node("SUBQUERY", "NA", ti, card, <<>>, <<>>, <<child>>)
Aggregate(child) == Node("AGGREGATE_AND_GROUP_BY", "NA", 0, 0, <<>>, <<>>, <<child>>)
Union(l, r) == Node("UNION", "NA", 0, 0, <<>>, <<>>, <<l, r>>)

\* the operator a path points to
RECURSIVE At(_, _)
At(p, path) == IF path = <<>> THEN p ELSE At(p.ch[Head(path)], Tail(path))

\* the plan with the operator at a path replaced
RECURSIVE Replace(_, _, _)
Replace(p, path, sub) ==
    IF path = <<>> THEN sub
    ELSE [p EXCEPT !.ch[Head(path)] = Replace(p.ch[Head(path)], Tail(path), sub)]

\* static GetTableReferences
RECURSIVE GetTableReferences(_)
GetTableReferences(op) ==
    IF op.type \in {"GET", "SUBQUERY", "TABLE_FUNCTION"} THEN {op.ti}
    ELSE UNION {GetTableReferences(op.ch[i]) : i \in 1..Len(op.ch)}

\* static PushFilter
PushFilter(node, expr) ==
    IF node.type # "FILTER" THEN Filter(<<expr>>, node)
    ELSE [node EXCEPT !.exprs = Append(@, expr)]

\* static CombineJoinSide
CombineJoinSide(left, right) ==
    IF left = "NONE" THEN right
    ELSE IF right = "NONE" THEN left
    ELSE IF left # right THEN "BOTH"
    ELSE left

\* static GetJoinSide; the children are combined from the first to the last
RECURSIVE GetJoinSide(_, _, _)
GetJoinSide(expression, left_bindings, right_bindings) ==
    IF expression.k = "col" THEN
        IF expression.d > 0 THEN "BOTH"
        ELSE IF expression.t \in left_bindings THEN "LEFT"
        ELSE "RIGHT"
    ELSE IF expression.k = "bref" THEN "NONE"
    ELSE IF expression.k = "subq" THEN "BOTH"
    ELSE LET RECURSIVE Fold(_, _)
             Fold(i, side) ==
                 IF i > Len(expression.ch) THEN side
                 ELSE Fold(i + 1,
                           CombineJoinSide(GetJoinSide(expression.ch[i], left_bindings,
                                                       right_bindings), side))
         IN Fold(1, "NONE")

(***************************************************************************)
(* static CreateJoinCondition.  s.join is the join, s.wrap tells whether   *)
(* op has become a filter above the join (PushFilter(move(op), ...)) and   *)
(* s.wexprs are the expressions of that filter.                            *)
(***************************************************************************)
\* CreateJoinCondition keeping the comparator of the operands it swaps
RECURSIVE CreateJoinConditionUnflipped(_, _, _, _)
CreateJoinConditionUnflipped(s, expr, left_bindings, right_bindings) ==
    LET total_side == GetJoinSide(expr, left_bindings, right_bindings)
        pushed == [s EXCEPT !.wrap = TRUE, !.wexprs = Append(@, expr)]
    IN
    IF total_side # "BOTH" THEN
        LET push_side == IF total_side = "LEFT" THEN 1 ELSE 2
        IN [s EXCEPT !.join.ch[push_side] = PushFilter(@, expr)]
    ELSE IF IsComparison(expr) THEN
        LET left_side == GetJoinSide(expr.ch[1], left_bindings, right_bindings)
            right_side == GetJoinSide(expr.ch[2], left_bindings, right_bindings)
        IN
        IF left_side # "BOTH" /\ right_side # "BOTH" THEN
            LET condition ==
                  IF left_side = "RIGHT"
                  THEN [comparison |-> expr.c, left |-> expr.ch[2], right |-> expr.ch[1]]
                  ELSE [comparison |-> expr.c, left |-> expr.ch[1], right |-> expr.ch[2]]
            IN [s EXCEPT !.join.conds = Append(@, condition)]
        ELSE pushed
    ELSE IF expr.k = "not" THEN
        LET child == expr.ch[1]
        IN
        IF child.k = "cmp" /\ child.c \in {"=", "<>", "<", ">", "<=", ">="} THEN
            CreateJoinConditionUnflipped(s,
                                         [child EXCEPT !.c = NegateComparisionExpression(@)],
                                         left_bindings, right_bindings)
        ELSE pushed
    ELSE pushed

RECURSIVE CreateJoinCondition(_, _, _, _)
CreateJoinCondition(s, expr, left_bindings, right_bindings) ==
    LET total_side == GetJoinSide(expr, left_bindings, right_bindings)
        pushed == [s EXCEPT !.wrap = TRUE, !.wexprs = Append(@, expr)]
    IN
    IF total_side # "BOTH" THEN
        LET push_side == IF total_side = "LEFT" THEN 1 ELSE 2
        IN [s EXCEPT !.join.ch[push_side] = PushFilter(@, expr)]
    ELSE IF IsComparison(expr) THEN
        LET left_side == GetJoinSide(expr.ch[1], left_bindings, right_bindings)
            right_side == GetJoinSide(expr.ch[2], left_bindings, right_bindings)
        IN
        IF left_side # "BOTH" /\ right_side # "BOTH" THEN
            LET condition ==
                  IF left_side = "RIGHT"
                  THEN [comparison |-> FlipComparisionExpression(expr.c),
                        left |-> expr.ch[2], right |-> expr.ch[1]]
                  ELSE [comparison |-> expr.c, left |-> expr.ch[1], right |-> expr.ch[2]]
            IN [s EXCEPT !.join.conds = Append(@, condition)]
        ELSE pushed
    ELSE IF expr.k = "not" THEN
        LET child == expr.ch[1]
        IN
        IF child.k = "cmp" /\ child.c \in {"=", "<>", "<", ">", "<=", ">="} THEN
            CreateJoinCondition(s, [child EXCEPT !.c = NegateComparisionExpression(@)],
                                left_bindings, right_bindings)
        ELSE pushed
    ELSE pushed

\* JoinOrderOptimizer::ResolveJoinConditions
RECURSIVE ResolveJoinConditions(_)
ResolveJoinConditions(op0) ==
    LET op == [op0 EXCEPT !.ch = [i \in 1..Len(op0.ch) |-> ResolveJoinConditions(op0.ch[i])]]
    IN
    IF op.type = "JOIN" /\ Len(op.exprs) > 0 THEN
        LET left_bindings == GetTableReferences(op.ch[1])
            right_bindings == GetTableReferences(op.ch[2])
            RECURSIVE Loop(_, _)
            Loop(i, s) ==
                IF i > Len(op.exprs) THEN s
                ELSE Loop(i + 1, CreateJoinCondition(s, op.exprs[i], left_bindings,
                                                    right_bindings))
            s == Loop(1, [wrap |-> FALSE, wexprs |-> <<>>, join |-> op])
            join == [s.join EXCEPT !.exprs = <<>>]
        IN IF s.wrap THEN Filter(s.wexprs, join) ELSE join
    ELSE op


\* LogicalOperator::EstimateCardinality
RECURSIVE EstimateCardinality(_)
EstimateCardinality(op) ==
    IF op.type \in {"GET", "SUBQUERY", "TABLE_FUNCTION"} THEN op.card
    ELSE IF Len(op.ch) = 1 THEN EstimateCardinality(op.ch[1])
    ELSE Max2(EstimateCardinality(op.ch[1]), EstimateCardinality(op.ch[2]))

(***************************************************************************)
(* JoinOrderOptimizer::ExtractJoinRelations.  st is the state of the walk: *)
(* the plan (whose children are replaced in place by the nested            *)
(* optimizers), relations, relation_mapping and filter_operators; st.ok is *)
(* the value returned.  parent = NoParent is the nullptr default.          *)
(***************************************************************************)
NoParent == <<0>>

EmptyWalk(plan) ==
    [ok |-> TRUE, plan |-> plan, relations |-> <<>>, relation_mapping |-> <<>>,
     filter_operators |-> <<>>]

\* relation_mapping[table_index] = id
MapTo(m, tables, id) ==
    [t \in DOMAIN m \cup tables |-> IF t \in tables THEN id ELSE m[t]]

AddRelation(st, input_op, parent, tables) ==
    [st EXCEPT !.relation_mapping = MapTo(@, tables, Len(st.relations)),
               !.relations = Append(@, [op |-> input_op, parent |-> parent])]

RECURSIVE ExtractJoinRelations(_, _, _)
RECURSIVE ExtractWalk(_, _, _, _)
RECURSIVE NestedOptimize(_)

\* a fresh JoinOrderOptimizer run on a child: optimizer.Optimize(move(child)),
\* for a child region that is not reorderable or has at most one relation
NestedOptimize(child) ==
    LET r == ExtractJoinRelations(EmptyWalk(child), <<>>, NoParent)
    IN ResolveJoinConditions(r.plan)

ExtractWalk(st, input_op, op, parent) ==
    LET o == At(st.plan, op)
    IN
    IF Len(o.ch) = 1 /\ o.type # "SUBQUERY" THEN
        \* the while loop over single-child operators
        LET st1 == IF o.type = "FILTER"
                   THEN [st EXCEPT !.filter_operators = Append(@, op)]
                   ELSE st
        IN
        IF o.type = "AGGREGATE_AND_GROUP_BY" THEN
            [st1 EXCEPT !.ok = FALSE,
                        !.plan = Replace(@, op \o <<1>>, NestedOptimize(o.ch[1]))]
        ELSE ExtractWalk(st1, input_op, op \o <<1>>, parent)
    ELSE IF o.type \in {"UNION", "EXCEPT", "INTERSECT"} THEN
        [st EXCEPT !.ok = FALSE,
                   !.plan = Replace(@, op,
                       [o EXCEPT !.ch = [i \in 1..Len(o.ch) |-> NestedOptimize(o.ch[i])]])]
    ELSE IF o.type = "JOIN" /\ o.jt # "INNER" THEN
        LET join == [o EXCEPT !.ch = [i \in 1..Len(o.ch) |-> NestedOptimize(o.ch[i])]]
            st1 == [st EXCEPT !.plan = Replace(@, op, join)]
        IN AddRelation(st1, input_op, parent, GetTableReferences(join))
    ELSE IF o.type \in {"JOIN", "CROSS_PRODUCT"} THEN
        LET st1 == IF o.type = "JOIN"
                   THEN [st EXCEPT !.filter_operators = Append(@, op)]
                   ELSE st
            l == ExtractJoinRelations(st1, op \o <<1>>, op)
        IN IF ~l.ok THEN l ELSE ExtractJoinRelations(l, op \o <<2>>, op)
    ELSE IF o.type \in {"GET", "TABLE_FUNCTION"} THEN
        AddRelation(st, input_op, parent, {o.ti})
    ELSE IF o.type = "SUBQUERY" THEN
        LET st1 == [st EXCEPT !.plan = Replace(@, op \o <<1>>, NestedOptimize(o.ch[1]))]
        IN AddRelation(st1, input_op, parent, {o.ti})
    ELSE [st EXCEPT !.ok = FALSE]

ExtractJoinRelations(st, input_op, parent) == ExtractWalk(st, input_op, input_op, parent)

(***************************************************************************)
(* JoinOrderOptimizer::ExtractBindings: r.b are the bindings, r.ok the     *)
(* value returned.  m is relation_mapping.  A poisoning subexpression      *)
(* clears the bindings made so far; the enumeration of the remaining       *)
(* children goes on.                                                       *)
(***************************************************************************)
RECURSIVE ExtractBindings(_, _, _)
ExtractBindings(expression, bindings, m) ==
    IF expression.k = "col" /\ expression.d > 0 THEN [ok |-> FALSE, b |-> {}]
    ELSE IF expression.k = "bref" THEN [ok |-> FALSE, b |-> {}]
    ELSE IF expression.k = "subq" /\ expression.d > 0 THEN [ok |-> FALSE, b |-> {}]
    ELSE LET b0 == IF expression.k = "col" THEN bindings \cup {m[expression.t]}
                   ELSE bindings
             RECURSIVE Fold(_, _)
             Fold(i, r) ==
                 IF i > Len(expression.ch) THEN r
                 ELSE LET c == ExtractBindings(expression.ch[i], r.b, m)
                      IN Fold(i + 1, [ok |-> r.ok /\ c.ok, b |-> c.b])
         IN Fold(1, [ok |-> TRUE, b |-> b0])

\* static Disjoint
Disjoint(a, b) == a \cap b = {}

\* RelationSet::IsSubset(super, sub): sub is a subset of super
IsSubset(super, sub) == sub \subseteq super

(***************************************************************************)
(* QueryGraph.  An edge is a NeighborInfo (the set it goes to and its      *)
(* filters) under the set it comes from; filters are indexes of            *)
(* filter_infos.  info = 0 is the nullptr of a cross-product edge.         *)
(***************************************************************************)
\* CreateEdge for a sequence of requests [from, to, info], in their order: an edge
\* that exists takes the filter of the request, a new edge is added after the others
CreateEdges(edges, requests) ==
    LET Same(a, b) == a.from = b.from /\ a.to = b.to
        fresh == SelectSeq([k \in 1..Len(requests) |-> k],
                           LAMBDA k : /\ \A i \in 1..Len(edges) : ~Same(edges[i], requests[k])
                                      /\ \A j \in 1..(k - 1) : ~Same(requests[j], requests[k]))
        Infos(e) == LET s == SelectSeq(requests, LAMBDA r : Same(r, e) /\ r.info # 0)
                    IN [k \in 1..Len(s) |-> s[k].info]
    IN [i \in 1..(Len(edges) + Len(fresh)) |->
           IF i <= Len(edges)
           THEN [edges[i] EXCEPT !.filters = @ \o Infos(edges[i])]
           ELSE [from |-> requests[fresh[i - Len(edges)]].from,
                 to |-> requests[fresh[i - Len(edges)]].to,
                 filters |-> Infos(requests[fresh[i - Len(edges)]])]]

CreateEdge(edges, from, to, info) ==
    CreateEdges(edges, <<[from |-> from, to |-> to, info |-> info]>>)

GetNeighbors(edges, node, exclusion_set) ==
    {Min(edges[i].to) : i \in {j \in 1..Len(edges) :
                                  /\ edges[j].from \subseteq node
                                  /\ edges[j].to # {}
                                  /\ edges[j].to \cap exclusion_set = {}}}

\* the connection of node and other: the index of the edge, 0 if there is none
GetConnection(edges, node, other) ==
    LET C == {i \in 1..Len(edges) :
                 \/ edges[i].from \subseteq node /\ edges[i].to \subseteq other
                 \/ edges[i].from \subseteq other /\ edges[i].to \subseteq node}
    IN IF C = {} THEN 0 ELSE Min(C)

(***************************************************************************)
(* Optimize, lines 786-830: the FilterInfo of every filter and the edges   *)
(* of the comparisons.  NoSet is a left_set / right_set that was not set.  *)
(***************************************************************************)
NoSet == {-1}

\* lines 788-806: the FilterInfo of filter i
FilterInfoOf(filter, i, m) ==
    LET left_bindings == ExtractBindings(filter.ch[1], {}, m).b
        right_bindings == ExtractBindings(filter.ch[2], {}, m).b
        both == IsComparison(filter) /\ left_bindings # {} /\ right_bindings # {}
    IN [filter_index |-> i, set |-> ExtractBindings(filter, {}, m).b,
        left_set |-> IF both THEN left_bindings ELSE NoSet,
        right_set |-> IF both THEN right_bindings ELSE NoSet]

\* the CreateEdge calls with one pair of edges between the two operand sets as they
\* are, whether they overlap or not
EdgeRequestsWhole(info) ==
    LET E(from, to) == [from |-> from, to |-> to, info |-> info.filter_index]
    IN
    IF info.left_set = NoSet \/ info.left_set = info.right_set THEN <<>>
    ELSE <<E(info.left_set, info.right_set), E(info.right_set, info.left_set)>>

\* lines 807-827: the CreateEdge calls made for a filter
EdgeRequests(info) ==
    LET left_bindings == info.left_set
        right_bindings == info.right_set
        left_difference == left_bindings \ right_bindings
        right_difference == right_bindings \ left_bindings
        E(from, to) == [from |-> from, to |-> to, info |-> info.filter_index]
    IN
    IF left_bindings = NoSet \/ left_bindings = right_bindings THEN <<>>
    ELSE IF Disjoint(left_bindings, right_bindings) THEN
        <<E(left_bindings, right_bindings), E(right_bindings, left_bindings)>>
    ELSE <<E(left_bindings, right_difference), E(right_difference, left_bindings),
           E(left_difference, right_bindings), E(right_bindings, left_difference)>>

\* the concatenation of sequences of at most four elements
Flatten(seqs) ==
    LET slots == SelectSeq([k \in 1..(4 * Len(seqs)) |->
                               [i |-> ((k - 1) \div 4) + 1, j |-> ((k - 1) % 4) + 1]],
                           LAMBDA x : x.j <= Len(seqs[x.i]))
    IN [k \in 1..Len(slots) |-> seqs[slots[k].i][slots[k].j]]

FilterEdges(filters, m) ==
    LET infos == [i \in 1..Len(filters) |-> FilterInfoOf(filters[i], i, m)]
    IN [filter_infos |-> infos,
        edges |-> CreateEdges(<<>>, Flatten([i \in 1..Len(filters) |-> EdgeRequests(infos[i])]))]

\* static ExtractFilters over all filter_operators: r.filters, r.plan
ExtractFilters(plan, filter_operators) ==
    LET RECURSIVE Loop(_, _)
        Loop(i, r) ==
            IF i > Len(filter_operators) THEN r
            ELSE LET op == At(r.plan, filter_operators[i])
                 IN Loop(i + 1, [filters |-> r.filters \o op.exprs,
                                 plan |-> Replace(r.plan, filter_operators[i],
                                                  [op EXCEPT !.exprs = <<>>])])
    IN Loop(1, [filters |-> <<>>, plan |-> plan])


(***************************************************************************)
(* The memo.  nodes is the heap of JoinNodes (a JoinNode* is an index of   *)
(* nodes, 0 the nullptr), plans maps a relation set to the JoinNode it     *)
(* owns and freed are the JoinNodes destroyed when their entry was         *)
(* replaced.  A NeighborInfo* is the index of its edge.                    *)
(***************************************************************************)
Leaf(set, cardinality) ==
    [set |-> set, info |-> 0, left |-> 0, right |-> 0,
     cardinality |-> cardinality, cost |-> 0]

\* CreateJoinTree keeping its two inputs in the order given
CreateJoinTreeUnswapped(set, info, left, right) ==
    LET expected_cardinality ==
            IF Len(info.filters) = 0
            THEN left.n.cardinality * right.n.cardinality
            ELSE Max2(left.n.cardinality, right.n.cardinality)
        cost == expected_cardinality + left.n.cost + right.n.cost
    IN [set |-> set, info |-> info.id, left |-> left.id, right |-> right.id,
        cardinality |-> expected_cardinality, cost |-> cost]

\* static CreateJoinTree; left and right are JoinNodes.  The size_t arithmetic is
\* exact: with the cardinalities of the model no product or sum reaches 2^64.
CreateJoinTree(set, info, left, right) ==
    LET l == IF left.n.cardinality < right.n.cardinality THEN right ELSE left
        r == IF left.n.cardinality < right.n.cardinality THEN left ELSE right
        expected_cardinality ==
            IF Len(info.filters) = 0
            THEN l.n.cardinality * r.n.cardinality
            ELSE Max2(l.n.cardinality, r.n.cardinality)
        cost == expected_cardinality + l.n.cost + r.n.cost
    IN [set |-> set, info |-> info.id, left |-> l.id, right |-> r.id,
        cardinality |-> expected_cardinality, cost |-> cost]

\* EmitPair replacing the stored plan on a cost tie as well
EmitPairOnTie(m, left, right, info) ==
    LET left_plan == [id |-> m.plans[left], n |-> m.nodes[m.plans[left]]]
        right_plan == [id |-> m.plans[right], n |-> m.nodes[m.plans[right]]]
        new_set == left \cup right
        new_plan == CreateJoinTree(new_set, [id |-> info, filters |-> m.edges[info].filters],
                                   left_plan, right_plan)
        found == new_set \in DOMAIN m.plans
    IN
    IF ~found \/ new_plan.cost <= m.nodes[m.plans[new_set]].cost THEN
        [m |-> [m EXCEPT !.nodes = Append(@, new_plan),
                         !.plans = (new_set :> (Len(m.nodes) + 1)) @@ @,
                         !.freed = IF found THEN @ \cup {m.plans[new_set]} ELSE @],
         result |-> Len(m.nodes) + 1]
    ELSE [m |-> m, result |-> m.plans[new_set]]

\* EmitPair replacing the stored plan when the new plan costs more
EmitPairCostlier(m, left, right, info) ==
    LET left_plan == [id |-> m.plans[left], n |-> m.nodes[m.plans[left]]]
        right_plan == [id |-> m.plans[right], n |-> m.nodes[m.plans[right]]]
        new_set == left \cup right
        new_plan == CreateJoinTree(new_set, [id |-> info, filters |-> m.edges[info].filters],
                                   left_plan, right_plan)
        found == new_set \in DOMAIN m.plans
    IN
    IF ~found \/ new_plan.cost > m.nodes[m.plans[new_set]].cost THEN
        [m |-> [m EXCEPT !.nodes = Append(@, new_plan),
                         !.plans = (new_set :> (Len(m.nodes) + 1)) @@ @,
                         !.freed = IF found THEN @ \cup {m.plans[new_set]} ELSE @],
         result |-> Len(m.nodes) + 1]
    ELSE [m |-> m, result |-> m.plans[new_set]]

\* EmitPair making the JoinNode of the left set only
EmitPairSetOfLeft(m, left, right, info) ==
    LET left_plan == [id |-> m.plans[left], n |-> m.nodes[m.plans[left]]]
        right_plan == [id |-> m.plans[right], n |-> m.nodes[m.plans[right]]]
        new_set == left \cup right
        new_plan == CreateJoinTree(left, [id |-> info, filters |-> m.edges[info].filters],
                                   left_plan, right_plan)
        found == new_set \in DOMAIN m.plans
    IN
    IF ~found \/ new_plan.cost < m.nodes[m.plans[new_set]].cost THEN
        [m |-> [m EXCEPT !.nodes = Append(@, new_plan),
                         !.plans = (new_set :> (Len(m.nodes) + 1)) @@ @,
                         !.freed = IF found THEN @ \cup {m.plans[new_set]} ELSE @],
         result |-> Len(m.nodes) + 1]
    ELSE [m |-> m, result |-> m.plans[new_set]]

\* JoinOrderOptimizer::EmitPair on the memo m; r.m is the memo, r.result the node returned
EmitPair(m, left, right, info) ==
    LET left_plan == [id |-> m.plans[left], n |-> m.nodes[m.plans[left]]]
        right_plan == [id |-> m.plans[right], n |-> m.nodes[m.plans[right]]]
        new_set == left \cup right
        new_plan == CreateJoinTree(new_set, [id |-> info, filters |-> m.edges[info].filters],
                                   left_plan, right_plan)
        found == new_set \in DOMAIN m.plans
    IN
    IF ~found \/ new_plan.cost < m.nodes[m.plans[new_set]].cost THEN
        [m |-> [m EXCEPT !.nodes = Append(@, new_plan),
                         !.plans = (new_set :> (Len(m.nodes) + 1)) @@ @,
                         !.freed = IF found THEN @ \cup {m.plans[new_set]} ELSE @],
         result |-> Len(m.nodes) + 1]
    ELSE [m |-> m, result |-> m.plans[new_set]]

\* TryEmitPair giving up only after the counter has passed the budget
TryEmitPairOver(m, left, right, info) ==
    LET m1 == [m EXCEPT !.pairs = @ + 1]
    IN
    IF m1.pairs > PairBudget THEN [m |-> m1, ok |-> FALSE]
    ELSE [m |-> [EmitPair(m1, left, right, info).m
                   EXCEPT !.emitted = IF Len(@) < MaxHistory
                                      THEN Append(@, [left |-> left, right |-> right])
                                      ELSE @],
          ok |-> TRUE]

\* JoinOrderOptimizer::TryEmitPair; r.m is the memo with the counter, r.ok the value returned
TryEmitPair(m, left, right, info) ==
    LET m1 == [m EXCEPT !.pairs = @ + 1]
    IN
    IF m1.pairs >= PairBudget THEN [m |-> m1, ok |-> FALSE]
    ELSE [m |-> [EmitPair(m1, left, right, info).m
                   EXCEPT !.emitted = IF Len(@) < MaxHistory
                                      THEN Append(@, [left |-> left, right |-> right])
                                      ELSE @],
          ok |-> TRUE]

(***************************************************************************)
(* The exact enumeration as a machine.  m.stack holds the activations of   *)
(* SolveJoinOrderExactly ("Solve"), EmitCSG, EnumerateCmpRecursive ("Cmp") *)
(* and EnumerateCSGRecursive ("CSG"), the innermost last; a frame records  *)
(* its arguments, the neighbors it iterates over, the loop index i and     *)
(* the place ph it is at.  m.ret = FALSE is a false result on its way out: *)
(* every caller returns false as soon as a callee did.                     *)
(***************************************************************************)
Frame(fn, node, right, excl, nbrs, i, ph) ==
    [fn |-> fn, node |-> node, right |-> right, excl |-> excl, nbrs |-> nbrs,
     i |-> i, ph |-> ph]

Reverse(s) == [i \in 1..Len(s) |-> s[Len(s) + 1 - i]]

\* the neighbors in the order the unordered result of GetNeighbors is iterated
NeighborList(m, node, excl) ==
    LET l == SortedSeq(GetNeighbors(m.edges, node, excl))
    IN IF m.desc THEN Reverse(l) ELSE l

Top(m) == m.stack[Len(m.stack)]
Pop(m) == [m EXCEPT !.stack = SubSeq(@, 1, Len(@) - 1)]
Push(m, f) == [m EXCEPT !.stack = Append(@, f)]
SetTop(m, f) == [m EXCEPT !.stack[Len(m.stack)] = f]

\* a call of EmitCSG(node): lines 388-398; no frame when it returns at once
CallEmitCSG(m, node) ==
    LET exclusion_set == {i \in 0..(Min(node) - 1) : TRUE} \cup node
        neighbors == SortedSeq(GetNeighbors(m.edges, node, exclusion_set))
    IN IF neighbors = <<>> THEN m
       ELSE Push(m, Frame("EmitCSG", node, {}, exclusion_set, neighbors, 1, "try"))

\* a call of EnumerateCmpRecursive(left, right, exclusion_set): lines 420-424
CallCmp(m, left, right, exclusion_set) ==
    LET neighbors == NeighborList(m, right, exclusion_set)
    IN IF neighbors = <<>> THEN m
       ELSE Push(m, Frame("Cmp", left, right, exclusion_set, neighbors, 1, "first"))

\* a call of EnumerateCSGRecursive(node, exclusion_set): lines 454-458
CallCSG(m, node, exclusion_set) ==
    LET neighbors == NeighborList(m, node, exclusion_set)
    IN IF neighbors = <<>> THEN m
       ELSE Push(m, Frame("CSG", node, {}, exclusion_set, neighbors, 1, "first"))

\* the arguments of the TryEmitPair call the innermost activation is at; info = 0 if none
EmitArgs(m) ==
    LET f == Top(m)
        none == [left |-> {}, right |-> {}, info |-> 0]
    IN
    IF m.stack = <<>> \/ ~m.ret \/ f.i > Len(f.nbrs) THEN none
    ELSE IF f.fn = "EmitCSG" /\ f.ph = "try" THEN
        [left |-> f.node, right |-> {f.nbrs[f.i]},
         info |-> GetConnection(m.edges, f.node, {f.nbrs[f.i]})]
    ELSE IF f.fn = "Cmp" /\ f.ph = "first" THEN
        LET combined_set == f.right \cup {f.nbrs[f.i]}
        IN IF combined_set \in DOMAIN m.plans
           THEN [left |-> f.node, right |-> combined_set,
                 info |-> GetConnection(m.edges, f.node, combined_set)]
           ELSE none
    ELSE none

AtEmit(m) == EmitArgs(m).info # 0

\* the TryEmitPair call of the innermost activation, and what follows its result
DoEmit(m) ==
    LET f == Top(m)
        a == EmitArgs(m)
        r == TryEmitPair(m, a.left, a.right, a.info)
    IN
    IF ~r.ok THEN [Pop(r.m) EXCEPT !.ret = FALSE]
    ELSE IF f.fn = "EmitCSG" THEN SetTop(r.m, [f EXCEPT !.ph = "cmp"])
    ELSE SetTop(r.m, [f EXCEPT !.i = @ + 1])

\* one step of the innermost activation that is not a TryEmitPair call
Step(m) ==
    LET f == Top(m)
    IN
    IF ~m.ret THEN Pop(m)
    ELSE IF f.fn = "Solve" THEN
        \* SolveJoinOrderExactly: i counts down from relations.size()
        IF f.i = 0 THEN Pop(m)
        ELSE IF f.ph = "emit" THEN
            CallEmitCSG(SetTop(m, [f EXCEPT !.ph = "enum"]), {f.i - 1})
        ELSE CallCSG(SetTop(m, [f EXCEPT !.ph = "emit", !.i = @ - 1]), {f.i - 1},
                     {j \in 0..(f.i - 2) : TRUE})
    ELSE IF f.fn = "EmitCSG" THEN
        IF f.i > Len(f.nbrs) THEN Pop(m)
        ELSE IF f.ph = "try" THEN SetTop(m, [f EXCEPT !.ph = "cmp"])
        ELSE CallCmp(SetTop(m, [f EXCEPT !.ph = "try", !.i = @ + 1]), f.node,
                     {f.nbrs[f.i]}, f.excl)
    ELSE IF f.fn = "Cmp" THEN
        IF f.ph = "first" THEN
            IF f.i > Len(f.nbrs) THEN SetTop(m, [f EXCEPT !.ph = "second", !.i = 1])
            ELSE SetTop(m, [f EXCEPT !.i = @ + 1])
        ELSE IF f.i > Len(f.nbrs) THEN Pop(m)
        ELSE CallCmp(SetTop(m, [f EXCEPT !.i = @ + 1]), f.node,
                     f.right \cup {f.nbrs[f.i]}, f.excl \cup {f.nbrs[f.i]})
    ELSE \* "CSG"
        IF f.ph = "first" THEN
            IF f.i > Len(f.nbrs) THEN SetTop(m, [f EXCEPT !.ph = "second", !.i = 1])
            ELSE LET new_set == f.node \cup {f.nbrs[f.i]}
                     m1 == SetTop(m, [f EXCEPT !.i = @ + 1])
                 IN IF new_set \in DOMAIN m.plans THEN CallEmitCSG(m1, new_set) ELSE m1
        ELSE IF f.i > Len(f.nbrs) THEN Pop(m)
        ELSE CallCSG(SetTop(m, [f EXCEPT !.i = @ + 1]),
                     f.node \cup {f.nbrs[f.i]}, f.excl \cup {f.nbrs[f.i]})

(***************************************************************************)
(* One iteration of the while loop of SolveJoinOrderApproximately on the   *)
(* fragments T (lines 516-583).  r.m is the memo and the query graph,      *)
(* r.T the fragments, r.crash tells that smallest_plans[1] was left null   *)
(* (the assertion of line 557 fails and the null pointer is dereferenced). *)
(***************************************************************************)
\* lines 522-539: the pairs (i, j), i < j, in the order of the two loops
ScanPairs(m, T) ==
    LET RECURSIVE Loop(_, _, _)
        Loop(i, j, r) ==
            IF i > Len(T) THEN r
            ELSE IF j > Len(T) THEN Loop(i + 1, i + 2, r)
            ELSE
              LET connection == GetConnection(r.m.edges, T[i], T[j])
              IN
              IF connection = 0 THEN Loop(i, j + 1, r)
              ELSE
                LET e == EmitPair(r.m, T[i], T[j], connection)
                    better == \/ r.best_connection = 0
                              \/ e.m.nodes[e.result].cost < e.m.nodes[r.best_connection].cost
                IN Loop(i, j + 1,
                        IF better
                        THEN [m |-> e.m, best_connection |-> e.result,
                              best_left |-> i, best_right |-> j]
                        ELSE [r EXCEPT !.m = e.m])
    IN Loop(1, 2, [m |-> m, best_connection |-> 0, best_left |-> 0, best_right |-> 0])

\* lines 543-556: the scan for the two fragments of smallest cardinality
SmallestPlans(m, T) ==
    LET RECURSIVE Loop(_, _)
        Loop(i, r) ==
            IF i > Len(T) THEN r
            ELSE
              LET current_plan == m.plans[T[i]]
                  card == m.nodes[current_plan].cardinality
                  Smaller(j) == \/ r.smallest_plans[j] = 0
                                \/ m.nodes[r.smallest_plans[j]].cardinality > card
              IN
              IF Smaller(1) THEN
                  Loop(i + 1, [r EXCEPT !.smallest_plans[1] = current_plan,
                                        !.smallest_index[1] = i])
              ELSE IF Smaller(2) THEN
                  Loop(i + 1, [r EXCEPT !.smallest_plans[2] = current_plan,
                                        !.smallest_index[2] = i])
              ELSE Loop(i + 1, r)
    IN Loop(1, [smallest_plans |-> <<0, 0>>, smallest_index |-> <<0, 0>>])

RemoveAt(s, i) == SubSeq(s, 1, i - 1) \o SubSeq(s, i + 1, Len(s))

\* the update of T putting back the left fragment in place of the joined one
JoinedKeepsLeft(m, T, best_left, best_right, best_connection) ==
    [m |-> m, crash |-> FALSE,
     T |-> Append(RemoveAt(RemoveAt(T, best_right), best_left), T[best_left])]

\* lines 577-582: best_left and best_right leave T and the joined fragment enters it
Joined(m, T, best_left, best_right, best_connection) ==
    [m |-> m, crash |-> FALSE,
     T |-> Append(RemoveAt(RemoveAt(T, best_right), best_left), m.nodes[best_connection].set)]

\* lines 557-573: the cross product of the two fragments the scan selected
CrossProductPair(m, T, left, right, best_left, best_right) ==
    LET m1 == [m EXCEPT !.edges = CreateEdge(@, left, right, 0)]
        e == EmitPair(m1, left, right, GetConnection(m1.edges, left, right))
    IN IF best_left > best_right
       THEN Joined(e.m, T, best_right, best_left, e.result)
       ELSE Joined(e.m, T, best_left, best_right, e.result)

\* lines 540-574: no pair of fragments is connected
ForcedCrossProduct(m, T, sm) ==
    IF sm.smallest_plans[1] = 0 \/ sm.smallest_plans[2] = 0
           \/ sm.smallest_index[1] = sm.smallest_index[2]
    THEN [m |-> m, crash |-> TRUE, T |-> T]
    ELSE CrossProductPair(m, T, m.nodes[sm.smallest_plans[1]].set,
                          m.nodes[sm.smallest_plans[2]].set,
                          sm.smallest_index[1], sm.smallest_index[2])

\* one iteration of the loop of SolveJoinOrderApproximately: lines 516-583
GreedyChoice(scan, T) ==
    IF scan.best_connection # 0
    THEN Joined(scan.m, T, scan.best_left, scan.best_right, scan.best_connection)
    ELSE ForcedCrossProduct(scan.m, T, SmallestPlans(scan.m, T))

GreedyStep(m, T) == GreedyChoice(ScanPairs(m, T), T)

\* GenerateCrossProducts adding no edge
GenerateCrossProductsNone(edges, n) == edges

\* JoinOrderOptimizer::GenerateCrossProducts over n relations
GenerateCrossProducts(edges, n) ==
    LET calls == SelectSeq([k \in 1..(2 * n * n) |->
                               [i |-> ((k - 1) \div 2) \div n, j |-> ((k - 1) \div 2) % n,
                                second |-> (k - 1) % 2 = 1]],
                           LAMBDA x : x.i # x.j)
    IN CreateEdges(edges, [k \in 1..Len(calls) |->
                              IF calls[k].second
                              THEN [from |-> {calls[k].j}, to |-> {calls[k].i}, info |-> 0]
                              ELSE [from |-> {calls[k].i}, to |-> {calls[k].j}, info |-> 0]])

(***************************************************************************)
(* JoinOrderOptimizer::GenerateJoins.  ctx holds extracted_relations, the  *)
(* heap of JoinNodes, the edges and filter_infos; g.filters is the global  *)
(* filters list (Null where the expression was moved out) and g.asserts    *)
(* the assertions of the source that failed.  The result is the pair       *)
(* (set, op) with the two.                                                 *)
(***************************************************************************)
\* lines 643-665: the join conditions from the filters of the connection
JoinConditions(ctx, info, left_set, right_set, g) ==
    LET RECURSIVE Loop(_, _)
        Loop(k, r) ==
            IF k > Len(info.filters) THEN r
            ELSE
              LET f == ctx.filter_infos[info.filters[k]]
                  condition == r.filters[f.filter_index]
                  oriented == \/ IsSubset(left_set, f.left_set) /\ IsSubset(right_set, f.right_set)
                              \/ IsSubset(left_set, f.right_set) /\ IsSubset(right_set, f.left_set)
                  invert == ~IsSubset(left_set, f.left_set)
                  cond == IF ~invert
                          THEN [comparison |-> condition.c, left |-> condition.ch[1],
                                right |-> condition.ch[2]]
                          ELSE [comparison |-> FlipComparisionExpression(condition.c),
                                left |-> condition.ch[2], right |-> condition.ch[1]]
              IN
              IF condition = Null THEN
                  Loop(k + 1, [r EXCEPT !.asserts = @ \cup {"filter_moved"}])
              ELSE
                  Loop(k + 1, [conds |-> Append(r.conds, cond),
                               filters |-> [r.filters EXCEPT ![f.filter_index] = Null],
                               asserts |-> IF oriented THEN r.asserts
                                           ELSE r.asserts \cup {"orientation"}])
    IN Loop(1, [conds |-> <<>>, filters |-> g.filters, asserts |-> g.asserts])

\* lines 680-717: the pushdown of the remaining filters at a node
Pushdown(ctx, result_relation, result_operator, filters) ==
    LET RECURSIVE Loop(_, _)
        Loop(i, r) ==
            IF i > Len(ctx.filter_infos) THEN r
            ELSE
              LET info == ctx.filter_infos[i]
                  filter == r.filters[info.filter_index]
                  moved == [r.filters EXCEPT ![info.filter_index] = Null]
                  op == r.op
              IN
              IF filter # Null /\ info.set # {} /\ IsSubset(result_relation, info.set) THEN
                  IF IsComparison(filter) THEN
                      IF op.type = "JOIN" THEN
                          Loop(i + 1, [op |-> [op EXCEPT !.exprs = Append(@, filter)],
                                       filters |-> moved])
                      ELSE IF op.type = "FILTER" THEN
                          IF op.ch[1].type = "JOIN" THEN
                              Loop(i + 1, [op |-> [op EXCEPT !.ch[1].exprs = Append(@, filter)],
                                           filters |-> moved])
                          ELSE Loop(i + 1, [op |-> [op EXCEPT !.exprs = Append(@, filter)],
                                            filters |-> moved])
                      ELSE Loop(i + 1, [op |-> PushFilter(op, filter), filters |-> moved])
                  ELSE Loop(i + 1, [op |-> PushFilter(op, filter), filters |-> moved])
              ELSE Loop(i + 1, r)
    IN Loop(1, [op |-> result_operator, filters |-> filters])

RECURSIVE GenerateJoins(_, _, _)
GenerateJoins(ctx, node, g) ==
    LET n == ctx.nodes[node]
    IN
    IF n.left # 0 /\ n.right # 0 THEN
        LET left == GenerateJoins(ctx, n.left, g)
            right == GenerateJoins(ctx, n.right,
                                   [filters |-> left.filters, asserts |-> left.asserts])
            info == ctx.edges[n.info]
            jc == JoinConditions(ctx, info, left.set, right.set,
                                 [filters |-> right.filters, asserts |-> right.asserts])
            join == IF Len(info.filters) = 0
                    THEN CrossProduct(left.op, right.op)
                    ELSE [Join("INNER", <<>>, left.op, right.op) EXCEPT !.conds = jc.conds]
            result_relation == left.set \cup right.set
            after == IF Len(info.filters) = 0
                     THEN [filters |-> right.filters, asserts |-> right.asserts]
                     ELSE [filters |-> jc.filters, asserts |-> jc.asserts]
            pd == Pushdown(ctx, result_relation, join, after.filters)
        IN [set |-> result_relation, op |-> pd.op, filters |-> pd.filters,
            asserts |-> after.asserts]
    ELSE
        LET pd == Pushdown(ctx, n.set, ctx.extracted_relations[Min(n.set) + 1], g.filters)
        IN [set |-> n.set, op |-> pd.op, filters |-> pd.filters, asserts |-> g.asserts]

\* lines 741-756: the path of the topmost join or cross product below the root
RECURSIVE FirstJoin(_, _)
FirstJoin(plan, path) ==
    IF At(plan, path).type \in {"CROSS_PRODUCT", "JOIN"} THEN path
    ELSE FirstJoin(plan, path \o <<1>>)

(***************************************************************************)
(* JoinOrderOptimizer::RewritePlan.  r.plan is the plan returned,          *)
(* r.filters the global filters list when it returns and r.asserts the     *)
(* assertions that failed on the way.                                      *)
(***************************************************************************)
RewritePlan(plan, node, ctx0, relations, filters) ==
    LET root_is_join == Len(plan.ch) > 1
        extracted_relations == [i \in 1..Len(relations) |-> At(plan, relations[i].op)]
        ctx == [ctx0 EXCEPT !.extracted_relations = extracted_relations]
        join_tree == GenerateJoins(ctx, node, [filters |-> filters, asserts |-> {}])
        \* lines 733-739: the final pushdown of the remaining filters
        RECURSIVE Final(_, _)
        Final(i, r) ==
            IF i > Len(r.filters) THEN r
            ELSE IF r.filters[i] # Null
                 THEN Final(i + 1, [op |-> PushFilter(r.op, r.filters[i]),
                                    filters |-> [r.filters EXCEPT ![i] = Null]])
                 ELSE Final(i + 1, r)
        top == Final(1, [op |-> join_tree.op, filters |-> join_tree.filters])
    IN
    IF root_is_join THEN
        [plan |-> top.op, filters |-> top.filters, asserts |-> join_tree.asserts]
    ELSE
        [plan |-> ResolveJoinConditions(Replace(plan, FirstJoin(plan, <<>>), top.op)),
         filters |-> top.filters, asserts |-> join_tree.asserts]


(***************************************************************************)
(* The state of one JoinOrderOptimizer and of its Optimize call            *)
(***************************************************************************)
VARIABLES
    input,             \* the plan handed to Optimize
    plan,              \* the plan as it is being changed, at the end the plan returned
    relations,         \* relations: the operator and the parent of every relation
    relation_mapping,  \* table index -> relation id
    filter_operators,  \* the operators the filters are extracted from
    filters,           \* the global filters list; Null where the expression was moved
    filter_infos,      \* the FilterInfo of every filter
    edges,             \* query_graph
    nodes,             \* the heap of JoinNodes
    plans,             \* plans: relation set -> JoinNode
    freed,             \* the JoinNodes destroyed
    pairs,             \* the pairs counter
    emitted,           \* history: (left, right) of the first EmitPair calls of this exact run
    stack,             \* the activations of the exact enumeration
    ret,               \* FALSE: a false result is on its way out of the enumeration
    desc,              \* the iteration order of the hash set of neighbors
    T,                 \* the fragments of SolveJoinOrderApproximately
    pass,              \* 1: the first SolveJoinOrder, 2: the one after GenerateCrossProducts
    final_plan,        \* the JoinNode handed to RewritePlan
    failed,            \* the assertions that failed
    pc,                \* the place Optimize is at
    call               \* the number of the Optimize call: 2 when called on a returned plan

vars == <<input, plan, relations, relation_mapping, filter_operators, filters,
          filter_infos, edges, nodes, plans, freed, pairs, emitted, stack, ret, desc, T,
          pass, final_plan, failed, pc, call>>

\* the memo, the query graph and the enumeration as one record
Machine ==
    [stack |-> stack, ret |-> ret, nodes |-> nodes, plans |-> plans, freed |-> freed,
     pairs |-> pairs, emitted |-> emitted, edges |-> edges, desc |-> desc]

SetMachine(m) ==
    /\ stack' = m.stack
    /\ ret' = m.ret
    /\ nodes' = m.nodes
    /\ plans' = m.plans
    /\ freed' = m.freed
    /\ pairs' = m.pairs
    /\ emitted' = m.emitted
    /\ edges' = m.edges

NumRelations == Len(relations)

(***************************************************************************)
(* The plans Optimize is called on                                         *)
(***************************************************************************)
\* the left-deep cross product of the base tables 0 .. n-1
RECURSIVE CrossChain(_, _)
CrossChain(n, card) ==
    IF n = 1 THEN Get(0, card[0])
    ELSE CrossProduct(CrossChain(n - 1, card), Get(n - 1, card[n - 1]))

\* the pairs of tables among n, in lexicographic order
PairSeq(n) ==
    SelectSeq([k \in 1..(n * n) |-> <<(k - 1) \div n, (k - 1) % n>>],
              LAMBDA e : e[1] < e[2])

\* the equality predicates of a set of pairs of tables, in the order of the pairs
EqualityFilters(E, n) ==
    LET s == SelectSeq(PairSeq(n), LAMBDA e : e \in E)
    IN [k \in 1..Len(s) |-> Cmp("=", Col(s[k][1]), Col(s[k][2]))]

TablePairs(n) == {e \in (0..(n - 1)) \X (0..(n - 1)) : e[1] < e[2]}

\* SELECT ... FROM t0, ..., tn-1 WHERE ti = tj AND ...
GraphPlans ==
    UNION {{Projection(Filter(EqualityFilters(E, n), CrossChain(n, card))) :
               E \in SUBSET TablePairs(n), card \in [0..(n - 1) -> 1..MaxCard]} :
           n \in 2..MaxRel}

(***************************************************************************)
(* Plans over the three tables 0, 1, 2 of all the operator shapes the walk *)
(* distinguishes, with one or two filters of all the kinds the binding     *)
(* extraction distinguishes.                                               *)
(***************************************************************************)
Sum(a, b) == Op("+", <<a, b>>)

FilterKinds ==
    {Cmp("=", Col(0), Col(1)), Cmp("<", Col(1), Col(0)), Cmp("=", Col(1), Col(2)),
     Cmp("<", Col(0), Col(2)),
     Cmp("=", Col(0), Const(1)), Cmp("=", Col(1), Const(1)), Cmp("<", Col(2), Const(1)),
     Cmp("=", Sum(Col(0), Col(1)), Col(2)),
     Cmp("<", Col(0), Sum(Col(0), Col(1))),
     Cmp("=", Sum(Col(0), Col(1)), Sum(Col(0), Col(2))),
     Cmp("=", Sum(Col(0), Col(1)), Const(1)),
     Cmp("=", Sum(Outer(0), Col(0)), Col(1)),
     Cmp("=", Col(0), Sum(Outer(0), Col(1))),
     Cmp("=", Col(0), Outer(0)),
     Cmp("=", Const(1), Const(1)),
     Op("isnull", <<Col(1)>>),
     Op("or", <<Cmp("=", Col(0), Col(1)), Cmp("=", Col(1), Col(2))>>),
     NotE(Cmp("<", Col(0), Col(1)))}

FilterSeqs == {<<f>> : f \in FilterKinds} \cup {<<f, g>> : f, g \in FilterKinds}

G0 == Get(0, 2)
G1 == Get(1, 1)
G2 == Get(2, 2)
On01 == Cmp("=", Col(0), Col(1))

ShapePlans ==
    UNION {{Projection(Filter(fs, CrossProduct(CrossProduct(G0, G1), G2))),
            Projection(Join("INNER", fs, Join("INNER", <<On01>>, G0, G1), G2)),
            Join("INNER", fs, CrossProduct(G0, G1), G2),
            Join("INNER", fs, Join("LEFT", <<On01>>, G0, G1), G2),
            Projection(CrossProduct(Filter(fs, Join("LEFT", <<On01>>, G0, G1)), G2)),
            Projection(Filter(fs, CrossProduct(Join("LEFT", <<On01>>, G0, G1), G2))),
            Projection(Join("INNER", <<Cmp("=", Col(0), Col(2))>>, Filter(fs, G0),
                            CrossProduct(G1, G2)))} :
           fs \in FilterSeqs}

\* plans whose walk fails at an aggregate or a set operation, some of them after two
\* relations, and plans of one relation
StopPlans ==
    UNION {{Projection(Filter(fs, CrossProduct(CrossProduct(G0, G1), Aggregate(G2)))),
            Projection(Join("INNER", fs, CrossProduct(G0, G1), Aggregate(G2))),
            Projection(Filter(fs, Union(G0, G1))),
            Projection(Filter(fs, Aggregate(G0))),
            Projection(Filter(fs, G0)),
            Projection(Filter(fs, Join("LEFT", <<On01>>, G0, G1))),
            Projection(Join("LEFT", fs, G0, G1)),
            Projection(Join("LEFT", fs, G1, G0))} :
           fs \in FilterSeqs}

\* SELECT ... FROM t0, t1, t2, t3, t4 WHERE t0 = t2 AND t2 = t3 AND t2 = t4: a star
\* around t2 next to a table that no predicate mentions
StarPlans ==
    {Projection(Filter(<<Cmp("=", Col(0), Col(2)), Cmp("=", Col(2), Col(3)),
                         Cmp("=", Col(2), Col(4))>>,
                       CrossChain(5, [i \in 0..4 |-> IF i = 2 THEN c ELSE 1]))) :
        c \in 1..MaxCard}

\* the tables of the column references of an expression
RECURSIVE ExprTables(_)
ExprTables(e) ==
    IF e.k = "col" THEN (IF e.d > 0 THEN {} ELSE {e.t})
    ELSE UNION {ExprTables(e.ch[i]) : i \in 1..Len(e.ch)}

\* every expression of the plan refers to tables below its operator
RECURSIVE WellFormed(_)
WellFormed(op) ==
    /\ \A i \in 1..Len(op.exprs) : ExprTables(op.exprs[i]) \subseteq GetTableReferences(op)
    /\ \A i \in 1..Len(op.ch) : WellFormed(op.ch[i])

Inputs == GraphPlans \cup StarPlans \cup {p \in ShapePlans \cup StopPlans : WellFormed(p)}

Init ==
    /\ input \in Inputs
    /\ plan = input
    /\ relations = <<>>
    /\ relation_mapping = <<>>
    /\ filter_operators = <<>>
    /\ filters = <<>>
    /\ filter_infos = <<>>
    /\ edges = <<>>
    /\ nodes = <<>>
    /\ plans = <<>>
    /\ freed = {}
    /\ pairs = 0
    /\ emitted = <<>>
    /\ stack = <<>>
    /\ ret = TRUE
    /\ desc \in BOOLEAN
    /\ T = <<>>
    /\ pass = 1
    /\ final_plan = 0
    /\ failed = {}
    /\ pc = "start"
    /\ call = 1

(***************************************************************************)
(* Optimize, step by step                                                  *)
(***************************************************************************)
\* the walk with the filters moved out of their operators before the plan that
\* is not reordered is returned
ExtractRelationsMoving ==
    /\ pc = "start"
    /\ LET r == ExtractJoinRelations(EmptyWalk(plan), <<>>, NoParent)
           stop == ~r.ok \/ Len(r.relations) <= 1
       IN /\ relations' = r.relations
          /\ relation_mapping' = r.relation_mapping
          /\ filter_operators' = r.filter_operators
          /\ plan' = IF stop
                     THEN ResolveJoinConditions(ExtractFilters(r.plan, r.filter_operators).plan)
                     ELSE r.plan
          /\ pc' = IF stop THEN "done" ELSE "extracted"
    /\ UNCHANGED <<call, input, filters, filter_infos, edges, nodes, plans, freed, pairs, emitted,
                   stack, ret, desc, T, pass, final_plan, failed>>

\* lines 765-780: the walk, and the return of a plan that is not reordered
ExtractRelations ==
    /\ pc = "start"
    /\ LET r == ExtractJoinRelations(EmptyWalk(plan), <<>>, NoParent)
           stop == ~r.ok \/ Len(r.relations) <= 1
       IN /\ relations' = r.relations
          /\ relation_mapping' = r.relation_mapping
          /\ filter_operators' = r.filter_operators
          /\ plan' = IF stop THEN ResolveJoinConditions(r.plan) ELSE r.plan
          /\ pc' = IF stop THEN "done" ELSE "extracted"
    /\ UNCHANGED <<call, input, filters, filter_infos, edges, nodes, plans, freed, pairs, emitted,
                   stack, ret, desc, T, pass, final_plan, failed>>

\* lines 782-830: the filters are moved out and the edges created
ExtractFilterEdges ==
    /\ pc = "extracted"
    /\ LET x == ExtractFilters(plan, filter_operators)
           g == FilterEdges(x.filters, relation_mapping)
       IN /\ plan' = x.plan
          /\ filters' = x.filters
          /\ filter_infos' = g.filter_infos
          /\ edges' = g.edges
    /\ pc' = "graph"
    /\ UNCHANGED <<call, input, relations, relation_mapping, filter_operators, nodes, plans, freed,
                   pairs, emitted, stack, ret, desc, T, pass, final_plan, failed>>

\* the call of SolveJoinOrderExactly by SolveJoinOrder
StartExact(m) ==
    [m EXCEPT !.ret = TRUE, !.emitted = <<>>,
              !.stack = <<Frame("Solve", {}, {}, {}, <<>>, NumRelations, "emit")>>]

\* lines 835-841: the leaves of the memo, and the first SolveJoinOrder
InitPlans ==
    /\ pc = "graph"
    /\ LET leaves == [i \in 1..NumRelations |->
                         Leaf({i - 1}, EstimateCardinality(At(plan, relations[i].op)))]
           memo == [s \in {{i - 1} : i \in 1..NumRelations} |-> Min(s) + 1]
       IN SetMachine(StartExact([Machine EXCEPT !.nodes = leaves, !.plans = memo]))
    /\ pc' = "exact"
    /\ UNCHANGED <<call, input, plan, relations, relation_mapping, filter_operators, filters,
                   filter_infos, desc, T, pass, final_plan, failed>>

\* one step of the exact enumeration that is not a TryEmitPair call
EnumerationStep ==
    /\ pc = "exact"
    /\ stack # <<>>
    /\ ~AtEmit(Machine)
    /\ SetMachine(Step(Machine))
    /\ UNCHANGED <<call, input, plan, relations, relation_mapping, filter_operators, filters,
                   filter_infos, desc, T, pass, final_plan, failed, pc>>

\* one TryEmitPair call of the exact enumeration
TryEmitPairCall ==
    /\ pc = "exact"
    /\ stack # <<>>
    /\ AtEmit(Machine)
    /\ SetMachine(DoEmit(Machine))
    /\ UNCHANGED <<call, input, plan, relations, relation_mapping, filter_operators, filters,
                   filter_infos, desc, T, pass, final_plan, failed, pc>>

\* lines 586-592: SolveJoinOrderExactly has returned
SolveJoinOrder ==
    /\ pc = "exact"
    /\ stack = <<>>
    /\ pc' = IF ret THEN "solved" ELSE "greedy"
    /\ T' = IF ret THEN T ELSE [i \in 1..NumRelations |-> {i - 1}]
    /\ UNCHANGED <<call, input, plan, relations, relation_mapping, filter_operators, filters,
                   filter_infos, edges, nodes, plans, freed, pairs, emitted, stack, ret, desc,
                   pass, final_plan, failed>>

\* one iteration of the loop of SolveJoinOrderApproximately
GreedyIteration ==
    /\ pc = "greedy"
    /\ LET r == GreedyStep(Machine, T)
       IN /\ SetMachine(r.m)
          /\ T' = r.T
          /\ failed' = IF r.crash THEN failed \cup {"smallest_plans"} ELSE failed
          /\ pc' = IF r.crash THEN "aborted"
                   ELSE IF Len(r.T) > 1 THEN "greedy" ELSE "solved"
    /\ UNCHANGED <<call, input, plan, relations, relation_mapping, filter_operators, filters,
                   filter_infos, desc, pass, final_plan>>

\* lines 844-860: the final plan, or the cross products and the second SolveJoinOrder
FinalPlan ==
    /\ pc = "solved"
    /\ LET total_relation == {i - 1 : i \in 1..NumRelations}
           found == total_relation \in DOMAIN plans
       IN IF found THEN
              /\ final_plan' = plans[total_relation]
              /\ pc' = "rewrite"
              /\ UNCHANGED <<edges, nodes, plans, freed, pairs, emitted, stack, ret, pass,
                             failed>>
          ELSE IF pass = 1 THEN
              /\ SetMachine(StartExact([Machine EXCEPT
                                !.edges = GenerateCrossProducts(@, NumRelations)]))
              /\ pass' = 2
              /\ pc' = "exact"
              /\ UNCHANGED <<final_plan, failed>>
          ELSE
              /\ failed' = failed \cup {"final_plan"}
              /\ pc' = "aborted"
              /\ UNCHANGED <<edges, nodes, plans, freed, pairs, emitted, stack, ret, pass,
                             final_plan>>
    /\ UNCHANGED <<call, input, plan, relations, relation_mapping, filter_operators, filters,
                   filter_infos, desc, T>>

\* line 862: RewritePlan; a failed assertion aborts the debug build
Rewrite ==
    /\ pc = "rewrite"
    /\ LET ctx == [extracted_relations |-> <<>>, nodes |-> nodes, edges |-> edges,
                   filter_infos |-> filter_infos]
           r == RewritePlan(plan, final_plan, ctx, relations, filters)
       IN /\ failed' = failed \cup r.asserts
          /\ \E abort \in BOOLEAN :
                /\ abort => r.asserts # {}
                /\ ~abort => "filter_moved" \notin r.asserts
                /\ pc' = IF abort THEN "aborted" ELSE "done"
                /\ plan' = IF abort THEN plan ELSE r.plan
                /\ filters' = IF abort THEN filters ELSE r.filters
    /\ UNCHANGED <<call, input, relations, relation_mapping, filter_operators, filter_infos, edges,
                   nodes, plans, freed, pairs, emitted, stack, ret, desc, T, pass, final_plan>>

Next ==
    \/ ExtractRelations
    \/ ExtractFilterEdges
    \/ InitPlans
    \/ EnumerationStep
    \/ TryEmitPairCall
    \/ SolveJoinOrder
    \/ FinalPlan
    \/ Rewrite

Spec == Init /\ [][Next]_vars

(***************************************************************************)
(* Optimize called once more, by a fresh JoinOrderOptimizer, on the plan   *)
(* that the first call returned.                                           *)
(***************************************************************************)
OptimizeAgain ==
    /\ pc = "done"
    /\ call = 1
    /\ call' = 2
    /\ input' = plan
    /\ relations' = <<>>
    /\ relation_mapping' = <<>>
    /\ filter_operators' = <<>>
    /\ filters' = <<>>
    /\ filter_infos' = <<>>
    /\ edges' = <<>>
    /\ nodes' = <<>>
    /\ plans' = <<>>
    /\ freed' = {}
    /\ pairs' = 0
    /\ emitted' = <<>>
    /\ stack' = <<>>
    /\ ret' = TRUE
    /\ desc' \in BOOLEAN
    /\ T' = <<>>
    /\ pass' = 1
    /\ final_plan' = 0
    /\ failed' = {}
    /\ pc' = "start"
    /\ UNCHANGED plan

NextTwice ==
    \/ ExtractRelations
    \/ ExtractFilterEdges
    \/ InitPlans
    \/ EnumerationStep
    \/ TryEmitPairCall
    \/ SolveJoinOrder
    \/ FinalPlan
    \/ Rewrite
    \/ OptimizeAgain

SpecTwice == Init /\ [][NextTwice]_vars


(***************************************************************************)
(* Regions large enough for the exact enumeration to use up the pair       *)
(* budget: BudgetRel tables joined pairwise by equalities, every other     *)
(* one of them of the same cardinality, next to two more tables that no    *)
(* predicate mentions.                                                     *)
(***************************************************************************)
BudgetRel == 7

BudgetPlans ==
    {Projection(Filter(EqualityFilters(TablePairs(BudgetRel), BudgetRel),
                       CrossChain(BudgetRel + 2,
                                  [i \in 0..(BudgetRel + 1) |->
                                      IF i > BudgetRel THEN 1
                                      ELSE IF i = BudgetRel THEN c[2]
                                      ELSE IF i % 2 = 0 THEN c[1] ELSE 1])))
     : c \in (1..(MaxCard + 1)) \X (1..MaxCard)}

(***************************************************************************)
(* Regions whose first SolveJoinOrder ends within the budget and without a *)
(* plan of all relations: one table fewer joined pairwise, next to a table *)
(* that no predicate mentions.  The second SolveJoinOrder, over the graph  *)
(* with the cross-product edges, uses up what the first one left.          *)
(***************************************************************************)
RetryRel == BudgetRel - 1

RetryPlans ==
    {Projection(Filter(EqualityFilters(TablePairs(RetryRel), RetryRel),
                       CrossChain(RetryRel + 1,
                                  [i \in 0..RetryRel |->
                                      IF i = RetryRel THEN c
                                      ELSE IF i % 2 = 0 THEN MaxCard ELSE 1])))
     : c \in 1..(MaxCard + 1)}

InitBudget ==
    /\ input \in BudgetPlans \cup RetryPlans
    /\ plan = input
    /\ relations = <<>>
    /\ relation_mapping = <<>>
    /\ filter_operators = <<>>
    /\ filters = <<>>
    /\ filter_infos = <<>>
    /\ edges = <<>>
    /\ nodes = <<>>
    /\ plans = <<>>
    /\ freed = {}
    /\ pairs = 0
    /\ emitted = <<>>
    /\ stack = <<>>
    /\ ret = TRUE
    /\ desc \in BOOLEAN
    /\ T = <<>>
    /\ pass = 1
    /\ final_plan = 0
    /\ failed = {}
    /\ pc = "start"
    /\ call = 1

(***************************************************************************)
(* With thousands of TryEmitPair calls ahead, the enumeration is also      *)
(* followed in runs of BurstCalls calls, from one call whose number is a   *)
(* multiple of BurstCalls to the next.  A run ends early when              *)
(* SolveJoinOrderExactly returns, and ahead of the call that takes the     *)
(* counter to the budget.  It is the composition of the steps that         *)
(* EnumerationStep and TryEmitPairCall take one by one.                    *)
(***************************************************************************)
BurstCalls == 512

\* m taken to its next TryEmitPair call, or to the return of the enumeration
RECURSIVE ToCall(_)
ToCall(m) == IF m.stack = <<>> \/ AtEmit(m) THEN m ELSE ToCall(Step(m))

\* m, which is at a TryEmitPair call, taken on by c calls
RECURSIVE RunOn(_, _)
RunOn(m, c) ==
    IF m.stack = <<>> \/ m.pairs + 1 >= PairBudget THEN m
    ELSE IF c = 1 THEN ToCall(DoEmit(m))
    ELSE RunOn(RunOn(m, c \div 2), c - (c \div 2))

ExactBurst ==
    /\ pc = "exact"
    /\ stack # <<>>
    /\ AtEmit(Machine)
    /\ pairs % BurstCalls = 0
    /\ pairs + 1 < PairBudget
    /\ SetMachine(RunOn(Machine, BurstCalls))
    /\ UNCHANGED <<call, input, plan, relations, relation_mapping, filter_operators, filters,
                   filter_infos, desc, T, pass, final_plan, failed, pc>>

NextBudget ==
    \/ ExtractRelations
    \/ ExtractFilterEdges
    \/ InitPlans
    \/ EnumerationStep
    \/ TryEmitPairCall
    \/ ExactBurst
    \/ SolveJoinOrder
    \/ GreedyIteration
    \/ FinalPlan
    \/ Rewrite

SpecBudget == InitBudget /\ [][NextBudget]_vars

(***************************************************************************)
(* The execution of a logical plan on a database state, after sections 6   *)
(* and 8 of the specification: a table holds distinct one-column rows, a   *)
(* row of a result gives the value of every table below the operator, the  *)
(* raw expressions and the conditions of a join are its ON predicates, and *)
(* a predicate holds on a row iff it evaluates to true (1) under           *)
(* three-valued logic.  Values are 0 and 1, NullValue is SQL NULL, and an  *)
(* expression over a column its operator does not see is Unbound.          *)
(***************************************************************************)
Values == {0, 1}
NullValue == 0 - 1
Unbound == 0 - 2

Compare(c, a, b) ==
    IF a = Unbound \/ b = Unbound THEN Unbound
    ELSE IF a = NullValue \/ b = NullValue THEN NullValue
    ELSE IF CASE c = "=" -> a = b
              [] c = "<>" -> a # b
              [] c = "<" -> a < b
              [] c = ">" -> a > b
              [] c = "<=" -> a <= b
              [] c = ">=" -> a >= b
              [] OTHER -> FALSE
         THEN 1 ELSE 0

RECURSIVE Eval(_, _, _)
Eval(e, row, outer) ==
    CASE e.k = "col" ->
            IF e.d > 0 THEN outer
            ELSE IF e.t \in DOMAIN row THEN row[e.t] ELSE Unbound
      [] e.k = "const" -> e.t
      [] e.k = "cmp" -> Compare(e.c, Eval(e.ch[1], row, outer), Eval(e.ch[2], row, outer))
      [] e.k = "not" ->
            LET a == Eval(e.ch[1], row, outer)
            IN IF a < 0 THEN a ELSE 1 - a
      [] e.k = "op" /\ e.c = "+" ->
            LET a == Eval(e.ch[1], row, outer)
                b == Eval(e.ch[2], row, outer)
            IN IF a = Unbound \/ b = Unbound THEN Unbound
               ELSE IF a = NullValue \/ b = NullValue THEN NullValue
               ELSE (a + b) % 2
      [] e.k = "op" /\ e.c = "isnull" ->
            LET a == Eval(e.ch[1], row, outer)
            IN IF a = Unbound THEN Unbound ELSE IF a = NullValue THEN 1 ELSE 0
      [] e.k = "op" /\ e.c = "or" ->
            LET a == Eval(e.ch[1], row, outer)
                b == Eval(e.ch[2], row, outer)
            IN IF a = Unbound \/ b = Unbound THEN Unbound
               ELSE IF a = 1 \/ b = 1 THEN 1
               ELSE IF a = 0 /\ b = 0 THEN 0
               ELSE NullValue
      [] OTHER -> 0

\* the values of the ON predicates of a join on a left row and a right row
JoinPredicates(op, a, b, outer) ==
    {Eval(op.exprs[i], a @@ b, outer) : i \in 1..Len(op.exprs)}
    \cup {Compare(op.conds[i].comparison, Eval(op.conds[i].left, a, outer),
                  Eval(op.conds[i].right, b, outer)) : i \in 1..Len(op.conds)}

\* r.rows are the rows of the result; r.ok is FALSE if an expression was Unbound
RECURSIVE Execute(_, _)
Execute(op, db) ==
    IF op.type = "GET" THEN
        [ok |-> TRUE, rows |-> {(op.ti :> v) : v \in db.tables[op.ti]}]
    ELSE IF op.type = "FILTER" THEN
        LET c == Execute(op.ch[1], db)
            P(row) == {Eval(op.exprs[i], row, db.outer) : i \in 1..Len(op.exprs)}
        IN [ok |-> c.ok /\ \A row \in c.rows : Unbound \notin P(row),
            rows |-> {row \in c.rows : P(row) \subseteq {1}}]
    ELSE IF op.type = "CROSS_PRODUCT" THEN
        LET l == Execute(op.ch[1], db)
            r == Execute(op.ch[2], db)
        IN [ok |-> l.ok /\ r.ok, rows |-> {a @@ b : a \in l.rows, b \in r.rows}]
    ELSE IF op.type = "JOIN" THEN
        LET l == Execute(op.ch[1], db)
            r == Execute(op.ch[2], db)
            Match(a) == {b \in r.rows : JoinPredicates(op, a, b, db.outer) \subseteq {1}}
            nulls == [t \in GetTableReferences(op.ch[2]) |-> NullValue]
        IN [ok |-> /\ l.ok
                   /\ r.ok
                   /\ \A a \in l.rows, b \in r.rows :
                          Unbound \notin JoinPredicates(op, a, b, db.outer),
            rows |-> UNION {IF op.jt = "INNER" \/ Match(a) # {}
                            THEN {a @@ b : b \in Match(a)}
                            ELSE {a @@ nulls} : a \in l.rows}]
    ELSE IF op.type = "UNION" THEN
        LET l == Execute(op.ch[1], db)
            r == Execute(op.ch[2], db)
        IN [ok |-> l.ok /\ r.ok, rows |-> l.rows \cup r.rows]
    ELSE Execute(op.ch[1], db)

\* the database states over the tables of a plan
Databases(p) ==
    {[tables |-> t, outer |-> o] : t \in [GetTableReferences(p) -> SUBSET Values],
                                   o \in Values}

\* C1: when Optimize has returned, the plan returned yields on every database state
\* the rows the plan it was called on yields
C1_Equivalence ==
    pc = "done" =>
        \A db \in Databases(input) :
            Execute(input, db).ok => Execute(plan, db) = Execute(input, db)


(***************************************************************************)
(* The csg-cmp pairs of a query graph whose edges all join one relation    *)
(* to one relation.                                                        *)
(***************************************************************************)
SimpleGraph ==
    \A i \in 1..Len(edges) :
        Cardinality(edges[i].from) = 1 /\ Cardinality(edges[i].to) = 1

RECURSIVE Reach(_, _)
Reach(S, R) ==
    LET more == {n \in S \ R : \E i \in 1..Len(edges) :
                     edges[i].from \subseteq R /\ edges[i].to = {n}}
    IN IF more = {} THEN R ELSE Reach(S, R \cup more)

Connected(S) == S # {} /\ Reach(S, {Min(S)}) = S

CsgCmpPairs ==
    {{A, B} : A, B \in {S \in SUBSET (0..(NumRelations - 1)) : Connected(S)}}
    \cap {P \in SUBSET SUBSET (0..(NumRelations - 1)) :
             \E A, B \in P : /\ P = {A, B}
                             /\ Disjoint(A, B)
                             /\ GetConnection(edges, A, B) # 0}

TimesEmitted(P) ==
    Cardinality({i \in 1..Len(emitted) : {emitted[i].left, emitted[i].right} = P})

\* C3: when SolveJoinOrderExactly has returned true on a graph of binary edges,
\* TryEmitPair has been called exactly once for every csg-cmp pair of the graph
C3_EachPairOnce ==
    (pc = "solved" /\ SimpleGraph /\ Len(emitted) < MaxHistory) =>
        \A P \in CsgCmpPairs : TimesEmitted(P) = 1


\* C6: the memo maps a relation set to one plan, and no step replaces the plan stored
\* for a set unless the new plan costs strictly less: a stored cost never increases
\* and on a cost tie the plan stored earlier stays
C6_StrictImprovement ==
    [][\A S \in DOMAIN plans :
          /\ S \in DOMAIN plans'
          /\ nodes'[plans'[S]].set = S
          /\ plans'[S] # plans[S] => nodes'[plans'[S]].cost < nodes[plans[S]].cost]_vars

\* the pair emitted last ties with the plan stored for its set by an earlier, different
\* pair, and the earlier plan is still the one stored
C6_TieKept ==
    /\ Len(emitted) > 1
    /\ Len(emitted) < MaxHistory
    /\ LET last == emitted[Len(emitted)]
           S == last.left \cup last.right
           stored == nodes[plans[S]]
           connection == GetConnection(edges, last.left, last.right)
           tie == CreateJoinTree(S, [id |-> connection, filters |-> edges[connection].filters],
                                 [id |-> plans[last.left], n |-> nodes[plans[last.left]]],
                                 [id |-> plans[last.right], n |-> nodes[plans[last.right]]])
       IN /\ tie.cost = stored.cost
          /\ {nodes[stored.left].set, nodes[stored.right].set} # {last.left, last.right}
          /\ \E i \in 1..(Len(emitted) - 1) :
                 {emitted[i].left, emitted[i].right}
                     = {nodes[stored.left].set, nodes[stored.right].set}


(***************************************************************************)
(* The binary join trees over a relation set, as the cardinality and cost  *)
(* CreateJoinTree gives them.  The two inputs of a join are joined through *)
(* their connection in the query graph; with cross, two inputs that have   *)
(* no connection are joined as a cross product.                            *)
(***************************************************************************)
JoinOf(S, A, B, a, b) ==
    LET connection == GetConnection(edges, A, B)
        t == CreateJoinTree(S, [id |-> connection,
                                filters |-> IF connection = 0 THEN <<>>
                                            ELSE edges[connection].filters],
                            [id |-> 0, n |-> a], [id |-> 0, n |-> b])
    IN [cardinality |-> t.cardinality, cost |-> t.cost]

RECURSIVE Trees(_, _)
Trees(S, cross) ==
    IF Cardinality(S) = 1
    THEN {[cardinality |-> nodes[plans[S]].cardinality, cost |-> 0]}
    ELSE UNION {{JoinOf(S, A, S \ A, a, b) : a \in Trees(A, cross), b \in Trees(S \ A, cross)}
                : A \in {X \in SUBSET S : /\ Min(S) \in X
                                          /\ X # S
                                          /\ cross \/ GetConnection(edges, X, S \ X) # 0}}

TotalRelation == 0..(NumRelations - 1)

\* C2 as stated: when SolveJoinOrderExactly has returned true, the plan of the full
\* relation set costs no more than any binary join tree over the relations
C2_CheapestOfAllTrees ==
    (pc = "solved" /\ ret /\ pairs < PairBudget /\ TotalRelation \in DOMAIN plans) =>
        \A t \in Trees(TotalRelation, TRUE) : nodes[plans[TotalRelation]].cost <= t.cost

\* C2, amended: when SolveJoinOrderExactly has returned true, the plan of the full
\* relation set costs no more than any binary join tree over the relations in which
\* the two inputs of every join are connected in the query graph
C2_CheapestOfConnectedTrees ==
    (pc = "solved" /\ ret /\ pairs < PairBudget /\ TotalRelation \in DOMAIN plans) =>
        \A t \in Trees(TotalRelation, FALSE) : nodes[plans[TotalRelation]].cost <= t.cost

\* SolveJoinOrderExactly has returned true with a plan of three or more relations that
\* costs less than another tree of connected joins over them
C2_CheaperThanAnother ==
    /\ pc = "solved"
    /\ ret
    /\ pairs < PairBudget
    /\ NumRelations >= 3
    /\ TotalRelation \in DOMAIN plans
    /\ \E t \in Trees(TotalRelation, FALSE) : nodes[plans[TotalRelation]].cost < t.cost


\* the operators of a plan, as the paths that lead to them
RECURSIVE Paths(_, _)
Paths(p, path) ==
    {path} \cup UNION {Paths(p.ch[i], path \o <<i>>) : i \in 1..Len(p.ch)}

\* C7: the assertion of GenerateJoins on the two sides of a join condition never
\* fails: each filter of the connection of an inner join has its left_set inside one
\* child and its right_set inside the other
C7_ConditionSides == "orientation" \notin failed

\* C9: in the plan Optimize returns no join carries raw expressions
C9_NoRawExpressions ==
    pc = "done" =>
        \A path \in Paths(plan, <<>>) :
            At(plan, path).type = "JOIN" => At(plan, path).exprs = <<>>


(***************************************************************************)
(* The predicates of a plan: the expressions of its operators and the      *)
(* conditions of its joins, each at the operator that evaluates it.  A     *)
(* comparison and the flipped comparison of its swapped operands are one   *)
(* predicate.                                                              *)
(***************************************************************************)
Occurrences(p) ==
    UNION {{<<path, "expression", i>> : i \in 1..Len(At(p, path).exprs)}
           \cup {<<path, "condition", i>> : i \in 1..Len(At(p, path).conds)}
           : path \in Paths(p, <<>>)}

SamePredicate(e) ==
    IF IsComparison(e)
    THEN {e, Cmp(FlipComparisionExpression(e.c), e.ch[2], e.ch[1])}
    ELSE {e}

PredicateAt(p, o) ==
    IF o[2] = "expression" THEN SamePredicate(At(p, o[1]).exprs[o[3]])
    ELSE SamePredicate(Cmp(At(p, o[1]).conds[o[3]].comparison,
                           At(p, o[1]).conds[o[3]].left, At(p, o[1]).conds[o[3]].right))

Times(p, e) == Cardinality({o \in Occurrences(p) : PredicateAt(p, o) = e})

SamePredicates(p, q) ==
    \A e \in {PredicateAt(p, o) : o \in Occurrences(p)}
             \cup {PredicateAt(q, o) : o \in Occurrences(q)} : Times(p, e) = Times(q, e)

\* C8: no filter that GenerateJoins takes as a join condition was moved before, and
\* when Optimize has returned every slot of filters is empty and the plan holds every
\* predicate of the plan it was called on exactly as often as that plan did
C8_FiltersMovedOnce ==
    /\ "filter_moved" \notin failed
    /\ pc = "done" /\ filter_infos # <<>> =>
           /\ \A i \in 1..Len(filters) : filters[i] = Null
           /\ SamePredicates(input, plan)

\* the joins of a plan that are not inner joins
OuterJoins(p) == {path \in Paths(p, <<>>) : At(p, path).type = "JOIN" /\ At(p, path).jt # "INNER"}

\* C10: in the plan Optimize returns, the predicates evaluated at or below a join that
\* is not an inner join are the ones evaluated at or below it in the plan Optimize
\* was called on: no filter from above the join was moved into it or under it
C10_NotPushedIntoOuterJoin ==
    pc = "done" =>
        \A a \in OuterJoins(input), b \in OuterJoins(plan) :
            GetTableReferences(At(input, a)) = GetTableReferences(At(plan, b))
                => SamePredicates(At(input, a), At(plan, b))


(***************************************************************************)
(* The join tree below a JoinNode of the heap                              *)
(***************************************************************************)
\* the JoinNodes of the tree below node id
RECURSIVE TreeNodes(_)
TreeNodes(id) ==
    IF nodes[id].left = 0 \/ nodes[id].right = 0 THEN {id}
    ELSE {id} \cup TreeNodes(nodes[id].left) \cup TreeNodes(nodes[id].right)

\* the node is a leaf of one base relation, or joins two disjoint inputs that make up
\* its set and that an edge of the query graph connects
ValidNode(id) ==
    LET n == nodes[id]
    IN IF n.left = 0 /\ n.right = 0 THEN Cardinality(n.set) = 1
       ELSE /\ n.left # 0 /\ n.right # 0
            /\ Disjoint(nodes[n.left].set, nodes[n.right].set)
            /\ nodes[n.left].set \cup nodes[n.right].set = n.set
            /\ GetConnection(edges, nodes[n.left].set, nodes[n.right].set) # 0

\* C4: when SolveJoinOrderApproximately has returned, the memo holds a plan of the
\* full relation set; no node of its tree was destroyed, its leaves are the base
\* relations, each once, and the two inputs of every join are connected by an edge
C4_GreedyPlanValid ==
    (pc = "solved" /\ ~ret) =>
        /\ TotalRelation \in DOMAIN plans
        /\ nodes[plans[TotalRelation]].set = TotalRelation
        /\ \A id \in TreeNodes(plans[TotalRelation]) : id \notin freed /\ ValidNode(id)

\* the greedy search has returned, after the exact search replaced plans in the memo,
\* with a plan that joins the isolated table through a cross-product edge it added
C4_GreedyReturned ==
    /\ pc = "solved"
    /\ ~ret
    /\ pairs >= PairBudget
    /\ freed # {}
    /\ TotalRelation \in DOMAIN plans
    /\ \E id \in TreeNodes(plans[TotalRelation]) :
           nodes[id].info # 0 /\ Len(edges[nodes[id].info].filters) = 0

\* C5: the pairs counter changes only by a TryEmitPair call, which adds one; a call
\* that takes it to the budget or beyond returns false and leaves the memo as it was;
\* while the false result is on its way out every step returns from one activation,
\* with no TryEmitPair call and no change of the memo, and when SolveJoinOrderExactly
\* has returned false SolveJoinOrder goes on with SolveJoinOrderApproximately
C5_BudgetStopsSearch ==
    [][/\ pairs' >= pairs
       /\ TryEmitPairCall =>
              /\ pairs' = pairs + 1
              /\ ret' = (pairs' < PairBudget)
              /\ ~ret' => /\ nodes' = nodes /\ plans' = plans /\ freed' = freed
                          /\ emitted' = emitted /\ edges' = edges
                          /\ Len(stack') < Len(stack)
       /\ ~(TryEmitPairCall \/ ExactBurst) => pairs' = pairs
       /\ (pc' = "exact" /\ pairs' >= PairBudget) => ~ret'
       /\ (pc = "exact" /\ ~ret) =>
              /\ pairs' = pairs
              /\ nodes' = nodes /\ plans' = plans /\ freed' = freed /\ emitted' = emitted
              /\ stack # <<>> =>
                     /\ ~ret' /\ pc' = "exact"
                     /\ stack' = SubSeq(stack, 1, Len(stack) - 1)
              /\ stack = <<>> =>
                     /\ pc' = "greedy"
                     /\ T' = [i \in 1..NumRelations |-> {i - 1}]
      ]_vars

\* the exact search has stopped on the call that took the counter to the budget and
\* the greedy search is about to start
C5_BudgetReached ==
    /\ pc = "greedy"
    /\ ~ret
    /\ pairs = PairBudget
    /\ Len(T) = NumRelations


(***************************************************************************)
(* Expressions that may not be used for reordering                         *)
(***************************************************************************)
\* the expression holds, at some position, a correlated column reference, a bound
\* execution-time reference or a correlated subquery
RECURSIVE Poisoned(_)
Poisoned(e) ==
    \/ e.k = "col" /\ e.d > 0
    \/ e.k = "bref"
    \/ e.k = "subq" /\ e.d > 0
    \/ \E i \in 1..Len(e.ch) : Poisoned(e.ch[i])

\* the filters of the edges of the query graph
EdgeFilters == UNION {{edges[i].filters[k] : k \in 1..Len(edges[i].filters)} : i \in 1..Len(edges)}

\* C11: a filter that holds a correlated column reference, a bound reference or a
\* correlated subquery is on no edge of the query graph, and no join of the plan
\* Optimize returns has a condition with such an operand
C11_PoisonedFilterNoEdge ==
    /\ \A i \in 1..Len(filters) :
           (filters[i] # Null /\ Poisoned(filters[i])) => i \notin EdgeFilters
    /\ pc = "done" =>
           \A path \in Paths(plan, <<>>) : \A k \in 1..Len(At(plan, path).conds) :
               /\ ~Poisoned(At(plan, path).conds[k].left)
               /\ ~Poisoned(At(plan, path).conds[k].right)


\* C12: when the filters have been extracted every edge of the query graph carries a
\* filter; an edge with a filter connects two disjoint sets, each of its filters is a comparison
\* whose two operand sets are non-empty and differ, and the edge of the opposite
\* orientation is there with the same filter
C12_EdgesDisjointBothWays ==
    \A i \in 1..Len(edges) :
        /\ pc = "graph" => Len(edges[i].filters) > 0
        /\ Len(edges[i].filters) > 0 =>
               /\ Disjoint(edges[i].from, edges[i].to)
               /\ \A k \in 1..Len(edges[i].filters) :
                      LET f == filter_infos[edges[i].filters[k]]
                      IN /\ filters[f.filter_index] # Null => IsComparison(filters[f.filter_index])
                         /\ f.left_set # NoSet /\ f.right_set # NoSet
                         /\ f.left_set # {} /\ f.right_set # {}
                         /\ f.left_set # f.right_set
                         /\ \E j \in 1..Len(edges) :
                                /\ edges[j].from = edges[i].to
                                /\ edges[j].to = edges[i].from
                                /\ \E l \in 1..Len(edges[j].filters) :
                                       edges[j].filters[l] = edges[i].filters[k]

\* the edges were created for a comparison whose two operand sets overlap
C12_OverlappingOperands ==
    /\ pc = "graph"
    /\ \E k \in EdgeFilters :
           /\ ~Disjoint(filter_infos[k].left_set, filter_infos[k].right_set)
           /\ filter_infos[k].left_set \ filter_infos[k].right_set # {}
           /\ filter_infos[k].right_set \ filter_infos[k].left_set # {}


\* C13: no edge of the query graph has the empty set as an endpoint, and a comparison
\* with overlapping operand sets of which one holds the other is on no edge
C13_NoEmptyEndpoint ==
    /\ \A i \in 1..Len(edges) : edges[i].from # {} /\ edges[i].to # {}
    /\ \A k \in EdgeFilters :
           /\ ~(filter_infos[k].left_set \subseteq filter_infos[k].right_set)
           /\ ~(filter_infos[k].right_set \subseteq filter_infos[k].left_set)


\* C14: every relation set that Optimize keeps holds at least one relation: the set
\* of every FilterInfo, its left_set and right_set where they were set, the two
\* endpoints of every edge and every key of the memo
C14_SetsNonEmpty ==
    /\ \A i \in 1..Len(filter_infos) :
           /\ filter_infos[i].set # {}
           /\ filter_infos[i].left_set # {}
           /\ filter_infos[i].right_set # {}
    /\ \A i \in 1..Len(edges) : edges[i].from # {} /\ edges[i].to # {}
    /\ \A S \in DOMAIN plans : S # {}


\* no two fragments of T are connected
NoPairConnected ==
    \A i, j \in 1..Len(T) : i # j => GetConnection(edges, T[i], T[j]) = 0

\* C15: a greedy step in which no two fragments are connected joins two fragments
\* such that no other fragment of T has a smaller plan cardinality than either
C15_ForcedPairSmallest ==
    [][(pc = "greedy" /\ NoPairConnected /\ pc' # "aborted") =>
          \A i, j \in 1..Len(T) :
              (T[i] \subseteq T'[Len(T')] /\ ~(T[j] \subseteq T'[Len(T')])) =>
                  nodes[plans[T[i]]].cardinality <= nodes[plans[T[j]]].cardinality]_vars


\* C16: once GenerateCrossProducts has run, the second SolveJoinOrder returns with
\* a plan of the full relation set in the memo, whether the exact enumeration or
\* the greedy search ends it, and neither the assertion on the final plan nor the
\* one on the two smallest fragments fails
C16_RetryFindsPlan ==
    /\ "final_plan" \notin failed
    /\ pass = 2 => "smallest_plans" \notin failed
    /\ (pass = 2 /\ pc = "solved") => TotalRelation \in DOMAIN plans
    /\ (pass = 2 /\ pc \in {"rewrite", "done"}) =>
           /\ final_plan \in 1..Len(nodes)
           /\ nodes[final_plan].set = TotalRelation

\* the second SolveJoinOrder used up the pair budget that the first one left, and
\* the greedy search has returned
C16_RetriedOverBudget ==
    /\ pass = 2
    /\ pc = "solved"
    /\ pairs >= PairBudget
    /\ ~ret
    /\ TotalRelation \in DOMAIN plans


\* the operators of a plan other than filters, with their children
RECURSIVE Shape(_)
Shape(p) ==
    IF p.type = "FILTER" THEN Shape(p.ch[1])
    ELSE [type |-> p.type, jt |-> p.jt, ti |-> p.ti,
          ch |-> [i \in 1..Len(p.ch) |-> Shape(p.ch[i])]]

\* the expressions of the filters of a plan, each with what its filter is above
RECURSIVE FilterExprs(_)
FilterExprs(p) ==
    (IF p.type = "FILTER"
     THEN {<<p.exprs[k], Shape(p)>> : k \in 1..Len(p.exprs)}
     ELSE {})
    \cup UNION {FilterExprs(p.ch[i]) : i \in 1..Len(p.ch)}

\* Optimize has returned from lines 774-780
ReturnedUnordered == pc = "done" /\ nodes = <<>>

\* C17: when Optimize returns because the walk failed or found at most one relation,
\* no filter has been extracted, the operators other than filters and their
\* parent/child structure are those of the input, and every expression of a filter
\* of the input is still in a filter above the same operators
C17_ReturnedUnchanged ==
    ReturnedUnordered =>
        /\ filters = <<>>
        /\ filter_infos = <<>>
        /\ edges = <<>>
        /\ Shape(plan) = Shape(input)
        /\ FilterExprs(input) \subseteq FilterExprs(plan)

\* the walk registered two relations and a filter operator before it failed
C17_StoppedAfterTwo ==
    /\ ReturnedUnordered
    /\ Len(relations) >= 2
    /\ \E k \in 1..Len(filter_operators) :
           /\ At(input, filter_operators[k]).type = "FILTER"
           /\ Len(At(input, filter_operators[k]).exprs) > 0


\* the joins of a plan, parents before children and left before right
RECURSIVE JoinsOf(_)
JoinsOf(p) ==
    (IF p.type = "JOIN" THEN <<p>> ELSE <<>>)
    \o (IF Len(p.ch) >= 1 THEN JoinsOf(p.ch[1]) ELSE <<>>)
    \o (IF Len(p.ch) >= 2 THEN JoinsOf(p.ch[2]) ELSE <<>>)

\* the comparison a raw expression stands for: itself, or the negated comparison
\* under a NOT
Resolved(e) ==
    IF e.k = "not" /\ IsComparison(e.ch[1])
    THEN [e.ch[1] EXCEPT !.c = NegateComparisionExpression(@)]
    ELSE e

\* the JoinCondition of a raw expression of a join whose children hold the tables
\* L and R, if it is a comparison of one side with the other
ConditionOf(e, L, R) ==
    LET c == Resolved(e)
    IN IF ~IsComparison(c) THEN {}
       ELSE IF GetJoinSide(c.ch[1], L, R) = "LEFT" /\ GetJoinSide(c.ch[2], L, R) = "RIGHT"
       THEN {[comparison |-> c.c, left |-> c.ch[1], right |-> c.ch[2]]}
       ELSE IF GetJoinSide(c.ch[1], L, R) = "RIGHT" /\ GetJoinSide(c.ch[2], L, R) = "LEFT"
       THEN {[comparison |-> FlipComparisionExpression(c.c),
              left |-> c.ch[2], right |-> c.ch[1]]}
       ELSE {}

\* C18: in a plan returned without reordering, and at every join of a returned plan
\* that is not an inner join, each join condition has its left expression over
\* tables of the left child and its right expression over tables of the right
\* child; the conditions of a join of a plan returned without reordering are those
\* of its raw comparisons of one side with the other, swapped and flipped when
\* oriented RIGHT, LEFT, and negated first when under a NOT
C18_ResolverConditions ==
    pc = "done" =>
        /\ \A k \in 1..Len(JoinsOf(plan)) :
               LET join == JoinsOf(plan)[k]
               IN (ReturnedUnordered \/ join.jt # "INNER") =>
                      \A i \in 1..Len(join.conds) :
                          /\ ExprTables(join.conds[i].left)
                                 \subseteq GetTableReferences(join.ch[1])
                          /\ ExprTables(join.conds[i].right)
                                 \subseteq GetTableReferences(join.ch[2])
        /\ ReturnedUnordered =>
               /\ Len(JoinsOf(plan)) = Len(JoinsOf(input))
               /\ \A k \in 1..Len(JoinsOf(input)) :
                      LET old == JoinsOf(input)[k]
                          new == JoinsOf(plan)[k]
                          L == GetTableReferences(old.ch[1])
                          R == GetTableReferences(old.ch[2])
                      IN {new.conds[i] : i \in 1..Len(new.conds)}
                            = UNION {ConditionOf(old.exprs[i], L, R) :
                                        i \in 1..Len(old.exprs)}

\* the resolver has made a condition of a NOT over a comparison oriented RIGHT, LEFT
C18_NegatedAndFlipped ==
    /\ ReturnedUnordered
    /\ \E k \in 1..Len(JoinsOf(input)) :
           LET old == JoinsOf(input)[k]
               L == GetTableReferences(old.ch[1])
               R == GetTableReferences(old.ch[2])
           IN \E i \in 1..Len(old.exprs) :
                  /\ old.exprs[i].k = "not"
                  /\ GetJoinSide(old.exprs[i].ch[1].ch[1], L, R) = "RIGHT"
                  /\ ConditionOf(old.exprs[i], L, R) # {}
                  /\ \E c \in ConditionOf(old.exprs[i], L, R) :
                         /\ c.comparison # old.exprs[i].ch[1].c
                         /\ c \in {JoinsOf(plan)[k].conds[j] :
                                       j \in 1..Len(JoinsOf(plan)[k].conds)}


\* the expression e is in a filter that is child c of the join
PushedUnder(join, c, e) ==
    /\ join.ch[c].type = "FILTER"
    /\ \E j \in 1..Len(join.ch[c].exprs) : join.ch[c].exprs[j] = e

\* C19: in a plan returned without reordering, a raw expression of a join is in a
\* filter under the left child exactly when its total side is LEFT and in a filter
\* under the right child exactly when its total side is RIGHT
C19_PushedUnderItsSide ==
    ReturnedUnordered =>
        \A k \in 1..Len(JoinsOf(input)) :
            LET old == JoinsOf(input)[k]
                new == JoinsOf(plan)[k]
                L == GetTableReferences(old.ch[1])
                R == GetTableReferences(old.ch[2])
            IN \A i \in 1..Len(old.exprs) :
                   /\ PushedUnder(new, 1, old.exprs[i])
                          <=> GetJoinSide(old.exprs[i], L, R) = "LEFT"
                   /\ PushedUnder(new, 2, old.exprs[i])
                          <=> GetJoinSide(old.exprs[i], L, R) = "RIGHT"


\* C20: the plan that Optimize returns when called on a plan that Optimize returned
\* is that plan
C20_Idempotent == (call = 2 /\ pc = "done") => plan = input


\* C21: the left and right references of every JoinNode the memo holds are the
\* JoinNodes the memo holds for the sets of those children, and none of them, nor any
\* JoinNode under the final plan, has been destroyed
C21_ChildrenStored ==
    /\ \A S \in DOMAIN plans :
           LET n == nodes[plans[S]]
           IN n.left # 0 =>
                  /\ n.left \notin freed
                  /\ n.right \notin freed
                  /\ nodes[n.left].set \in DOMAIN plans
                  /\ nodes[n.right].set \in DOMAIN plans
                  /\ plans[nodes[n.left].set] = n.left
                  /\ plans[nodes[n.right].set] = n.right
    /\ final_plan # 0 => TreeNodes(final_plan) \cap freed = {}


\* the JoinNode is a leaf of one relation, or joins two non-empty disjoint sets that
\* make up its set
WellShaped(n) ==
    IF n.left = 0 \/ n.right = 0
    THEN /\ n.left = 0
         /\ n.right = 0
         /\ n.info = 0
         /\ n.cost = 0
         /\ Cardinality(n.set) = 1
    ELSE /\ nodes[n.left].set # {}
         /\ nodes[n.right].set # {}
         /\ nodes[n.left].set \cap nodes[n.right].set = {}
         /\ nodes[n.left].set \cup nodes[n.right].set = n.set

\* C22: every entry of the memo is stored under its own set and is a leaf of one
\* relation with cost 0 or joins two non-empty disjoint sets that make up its set;
\* the two sets of a TryEmitPair call of the enumeration, and the fragments whose
\* pairs the greedy search emits, have an entry in the memo
C22_MemoEntries ==
    /\ \A S \in DOMAIN plans :
           /\ nodes[plans[S]].set = S
           /\ WellShaped(nodes[plans[S]])
    /\ (pc = "exact" /\ stack # <<>> /\ AtEmit(Machine)) =>
           /\ EmitArgs(Machine).left \in DOMAIN plans
           /\ EmitArgs(Machine).right \in DOMAIN plans
           /\ EmitArgs(Machine).left \cap EmitArgs(Machine).right = {}
    /\ pc = "greedy" => \A i \in 1..Len(T) : T[i] \in DOMAIN plans

\* the memo holds a plan of three relations or more in place of one it has replaced
C22_ReplacedEntry ==
    /\ pc = "solved"
    /\ freed # {}
    /\ \E S \in DOMAIN plans :
           /\ Cardinality(S) >= 3
           /\ nodes[plans[S]].left # 0
           /\ nodes[nodes[plans[S]].left].left # 0


\* the JoinNode that CreateJoinTree makes of the two plans of a TryEmitPair call,
\* given in this order or in the other
TreeOfCall(swap) ==
    LET a == EmitArgs(Machine)
        l == [id |-> plans[a.left], n |-> nodes[plans[a.left]]]
        r == [id |-> plans[a.right], n |-> nodes[plans[a.right]]]
        info == [id |-> a.info, filters |-> edges[a.info].filters]
    IN IF swap THEN CreateJoinTree(a.left \cup a.right, info, r, l)
       ELSE CreateJoinTree(a.left \cup a.right, info, l, r)

AtTryEmitPair == pc = "exact" /\ stack # <<>> /\ AtEmit(Machine)

\* C23: every JoinNode with children has a left child of at least the cardinality
\* of the right child, the product of the two cardinalities when its connection has
\* no filter and the larger of them otherwise, and that cardinality plus the costs
\* of the children as its cost; the cardinality and the cost that CreateJoinTree
\* gives are the same for the two orders of its inputs
C23_JoinTree ==
    /\ \A k \in 1..Len(nodes) :
           LET n == nodes[k]
           IN n.left # 0 =>
                  /\ nodes[n.left].cardinality >= nodes[n.right].cardinality
                  /\ n.cardinality =
                         IF Len(edges[n.info].filters) = 0
                         THEN nodes[n.left].cardinality * nodes[n.right].cardinality
                         ELSE Max2(nodes[n.left].cardinality, nodes[n.right].cardinality)
                  /\ n.cost = n.cardinality + nodes[n.left].cost + nodes[n.right].cost
    /\ AtTryEmitPair =>
           /\ TreeOfCall(TRUE).cardinality = TreeOfCall(FALSE).cardinality
           /\ TreeOfCall(TRUE).cost = TreeOfCall(FALSE).cost
           /\ {TreeOfCall(TRUE).left, TreeOfCall(TRUE).right}
                  = {TreeOfCall(FALSE).left, TreeOfCall(FALSE).right}

\* C23 as stated: the JoinNode that CreateJoinTree makes is the same for the two
\* orders of its inputs
C23_OrderIndependent == AtTryEmitPair => TreeOfCall(TRUE) = TreeOfCall(FALSE)

\* TryEmitPair is called on a cross product whose left plan is the smaller one, and
\* the memo holds a cross product of a larger and a smaller plan
C23_SwappedCrossProduct ==
    /\ AtTryEmitPair
    /\ Len(edges[EmitArgs(Machine).info].filters) = 0
    /\ nodes[plans[EmitArgs(Machine).left]].cardinality
           < nodes[plans[EmitArgs(Machine).right]].cardinality
    /\ \E k \in 1..Len(nodes) :
           /\ nodes[k].left # 0
           /\ Len(edges[nodes[k].info].filters) = 0
           /\ nodes[nodes[k].left].cardinality > nodes[nodes[k].right].cardinality
           /\ nodes[nodes[k].right].cardinality > 1


(***************************************************************************)
(* Optimize runs on one thread and waits for nothing outside it: as long   *)
(* as the call has not ended, its next step is taken.  Every state short   *)
(* of the end has a step of NextBudget, so a call that has not ended can   *)
(* step; Killed, a step that NextBudget never takes, states just that, and *)
(* makes ENABLED <<Running>>_vars the predicate ~Ended.  The steps of      *)
(* Running that a behavior of SpecBudget takes are those of NextBudget,    *)
(* and SpecFair is SpecBudget with weak fairness of NextBudget.            *)
(***************************************************************************)
Ended == pc \in {"done", "aborted"}

Killed ==
    /\ pc' = "killed"
    /\ UNCHANGED <<call, input, plan, relations, relation_mapping, filter_operators, filters,
                   filter_infos, edges, nodes, plans, freed, pairs, emitted, stack, ret, desc,
                   T, pass, final_plan, failed>>

Running == ~Ended /\ (Killed \/ NextBudget)

SpecFair == InitBudget /\ [][NextBudget]_vars /\ WF_vars(Running)

\* the fragments are non-empty, pairwise disjoint, and their union is all relations
Partition(t) ==
    /\ \A i \in 1..Len(t) : t[i] # {}
    /\ \A i, j \in 1..Len(t) : i # j => t[i] \cap t[j] = {}
    /\ UNION {t[i] : i \in 1..Len(t)} = {i - 1 : i \in 1..NumRelations}

\* every recursive call runs with a strictly larger exclusion set than its caller
ExclusionGrows ==
    \A k \in 1..(Len(stack) - 1) :
        (stack[k].fn = stack[k + 1].fn /\ stack[k].fn \in {"Cmp", "CSG"}) =>
            /\ stack[k].excl \subseteq stack[k + 1].excl
            /\ stack[k].excl # stack[k + 1].excl

\* an iteration of the greedy loop takes two fragments out of T and puts one in
GreedyShrinks ==
    (pc = "greedy" /\ pc' # pc) \/ (pc = "greedy" /\ T' # T) =>
        /\ Len(T') = Len(T) - 1
        /\ Partition(T')
        /\ pc' = (IF Len(T') = 1 THEN "solved" ELSE "greedy")

\* C24: every Optimize call returns; every recursive call of the enumeration has a
\* strictly larger exclusion set than its caller; the greedy loop starts from
\* fragments that partition the relations, and each of its iterations removes two
\* fragments and adds one, keeping them a partition, until one fragment is left
C24_Terminates ==
    /\ []ExclusionGrows
    /\ [](pc = "greedy" => Partition(T))
    /\ [][GreedyShrinks]_vars
    /\ <>(pc = "done")


\* C25: in a greedy step where no pair of the fragments of T is connected, the scan
\* for the two smallest fragments ends with both smallest_plans entries set, at two
\* different indexes of T, whatever the order of the cardinalities in T, and the
\* step does not fail
C25_ScanSelectsTwo ==
    /\ (pc = "greedy" /\ NoPairConnected) =>
           LET s == SmallestPlans(Machine, T)
           IN /\ s.smallest_plans[1] # 0
              /\ s.smallest_plans[2] # 0
              /\ s.smallest_index[1] # s.smallest_index[2]
    /\ "smallest_plans" \notin failed

====
